---- MODULE Spec2Model ----
(***************************************************************************)
(* Model of the club merch server (latest revision, src/unnamed/part_002): *)
(* the flat-file collections (users, orders, merch items), the in-memory   *)
(* session table, and the request handlers that read and rewrite them.     *)
(*                                                                         *)
(* Representation.                                                         *)
(*   - A JS string is a sequence of one-character strings, so that trim,   *)
(*     toUpperCase and toLowerCase are computed character by character.    *)
(*   - A JS number is an integer counting thousandths: 2.5 is 2500 and     *)
(*     the price 25 is 25000.  Arithmetic is exact; IEEE rounding error is *)
(*     not modelled, and the requests are chosen so that no product falls  *)
(*     on half a cent, where it would decide.  NaN is a separate value.    *)
(*   - A JSON value of a request body is a record [t, v]: its type tag     *)
(*     and its payload.                                                    *)
(*   - A nullable field is <<>> for null and <<x>> for the value x.        *)
(*   - A timestamp (new Date().toISOString()) is the value of clock.       *)
(*   - The creation and approval timestamps of users and sessions, which  *)
(*     no handler reads, are left out of their records.                    *)
(*   - Every handler of part_002 runs to completion without suspending:    *)
(*     the file operations are the *Sync ones and no handler awaits before *)
(*     it responds.  One request is therefore one action.                  *)
(***************************************************************************)
EXTENDS Integers, Sequences, FiniteSets, TLC

VARIABLES
    users,        \* users.json: sequence of user records
    sessions,     \* the sessions Map: token -> session record
    merchExists,  \* whether merch-items.json exists on disk
    merchItems,   \* content of merch-items.json (<<>> while it does not exist)
    uploads,      \* file names present in the uploads directory
    orders,       \* orders.json: sequence of order records
    clock,        \* Date.now()
    tokens,       \* number of session tokens issued so far
    userIds,      \* number of user UUIDs drawn so far
    orderIds,     \* number of order UUIDs drawn so far
    itemIds,      \* number of item ids drawn so far
    env,          \* the configuration of the process: PASSWORD_GATE_ENABLED and LOGIN_PASSWORD
    last,         \* the last request handled and the response it got
    cookie,       \* the club_session cookie the last request carried (0 when it carried none)
    disk,         \* the storage layer on its own: the data files, ensuredDataFiles, the last call
    mail,         \* the owner notifications of the placed orders, each at its position in maybeSendOrderEmail
    placedOk,     \* history: number of place-order requests answered with success
    firstFulfill  \* history: order id -> what the successful fulfill requests of the order did

vars == << users, sessions, merchExists, merchItems, uploads, orders, clock,
          tokens, userIds, orderIds, itemIds, env, last, cookie, disk, mail, placedOk, firstFulfill >>

-----------------------------------------------------------------------------
(* Bounds of the model.                                                    *)

MaxClock == 2
MaxSessions == 2
MaxOrders == 2
MaxPlaced == 1
MaxItems == 1
MaxUploads == 2
MaxMailed == 2
MaxListed == 3

-----------------------------------------------------------------------------
(* Nullable values.                                                        *)

Null == <<>>
Some(x) == <<x>>
IsNull(o) == o = <<>>
Val(o) == o[1]

\* a || b for nullable a whose values are always truthy (ISO timestamps, e-mail addresses)
OrElse(a, b) == IF IsNull(a) THEN b ELSE a

-----------------------------------------------------------------------------
(* Strings.                                                                *)

LowerLetters == << "a","b","c","d","e","f","g","h","i","j","k","l","m",
                   "n","o","p","q","r","s","t","u","v","w","x","y","z" >>
UpperLetters == << "A","B","C","D","E","F","G","H","I","J","K","L","M",
                   "N","O","P","Q","R","S","T","U","V","W","X","Y","Z" >>
LowerSet == { LowerLetters[i] : i \in 1..26 }
UpperSet == { UpperLetters[i] : i \in 1..26 }
DigitSet == { "0","1","2","3","4","5","6","7","8","9" }
Whitespace == { " ", "\t", "\n" }

UpperOf == [c \in LowerSet |-> UpperLetters[CHOOSE i \in 1..26 : LowerLetters[i] = c]]
LowerOf == [c \in UpperSet |-> LowerLetters[CHOOSE i \in 1..26 : UpperLetters[i] = c]]
DigitOf == [c \in DigitSet |->
               CASE c = "0" -> 0 [] c = "1" -> 1 [] c = "2" -> 2 [] c = "3" -> 3 [] c = "4" -> 4
                 [] c = "5" -> 5 [] c = "6" -> 6 [] c = "7" -> 7 [] c = "8" -> 8 [] c = "9" -> 9]

toUpperCase(s) == [i \in 1..Len(s) |-> IF s[i] \in LowerSet THEN UpperOf[s[i]] ELSE s[i]]
toLowerCase(s) == [i \in 1..Len(s) |-> IF s[i] \in UpperSet THEN LowerOf[s[i]] ELSE s[i]]

RECURSIVE trimStart(_)
trimStart(s) == IF s # <<>> /\ Head(s) \in Whitespace THEN trimStart(Tail(s)) ELSE s

RECURSIVE trimEnd(_)
trimEnd(s) ==
    IF s # <<>> /\ s[Len(s)] \in Whitespace THEN trimEnd(SubSeq(s, 1, Len(s) - 1)) ELSE s

trim(s) == trimEnd(trimStart(s))

startsWith(s, prefix) == Len(s) >= Len(prefix) /\ SubSeq(s, 1, Len(prefix)) = prefix

includes(list, x) == \E i \in 1..Len(list) : list[i] = x

\* the least element of a non-empty set of indices, 0 for the empty set (find, findIndex)
First(indices) == IF indices = {} THEN 0 ELSE CHOOSE i \in indices : \A j \in indices : i <= j

-----------------------------------------------------------------------------
(* Numbers (thousandths) and JSON values.                                  *)

Units(n) == n * 1000
NaN == [nan |-> TRUE, n |-> 0]
Num(n) == [nan |-> FALSE, n |-> n]

JsUndefined == [t |-> "undefined", v |-> <<>>]
JsNull == [t |-> "null", v |-> <<>>]
JsBool(b) == [t |-> "boolean", v |-> b]
JsNumber(n) == [t |-> "number", v |-> n]
JsString(s) == [t |-> "string", v |-> s]

\* Boolean(x), and the test of !x
Truthy(x) ==
    CASE x.t = "boolean" -> x.v
      [] x.t = "number" -> x.v # 0
      [] x.t = "string" -> x.v # <<>>
      [] OTHER -> FALSE

RECURSIVE DigitsValue(_)
DigitsValue(s) ==
    IF s = <<>> THEN 0 ELSE DigitsValue(SubSeq(s, 1, Len(s) - 1)) * 10 + DigitOf[s[Len(s)]]

\* Number(x): a string converts when, trimmed, it is empty or all digits
ToNumber(x) ==
    CASE x.t = "number" -> Num(x.v)
      [] x.t = "boolean" -> Num(IF x.v THEN 1000 ELSE 0)
      [] x.t = "null" -> Num(0)
      [] x.t = "string" ->
            LET digits == trim(x.v) IN
            IF \A i \in 1..Len(digits) : digits[i] \in DigitSet
            THEN Num(DigitsValue(digits) * 1000)
            ELSE NaN
      [] OTHER -> NaN

\* String(x || '') for the request fields that are strings or missing
ToStringOrEmpty(x) == IF x.t = "string" THEN x.v ELSE <<>>

\* Math.round(x * 100) / 100, for x in thousandths
RoundToCents(x) == ((x + 5) \div 10) * 10

\* Math.round(a * b * 100) / 100, for a and b in thousandths
RoundProductToCents(a, b) == ((a * b + 5000) \div 10000) * 10

-----------------------------------------------------------------------------
(* Program constants.                                                      *)

OWNER_EMAIL == << "1","0","2","0","r","j","l","@","g","m","a","i","l",".","c","o","m" >>
PASSWORD_GATE_ENABLED == FALSE

\* the configuration of the process as the source has it: the gate switched off
\* (const PASSWORD_GATE_ENABLED = false) and no LOGIN_PASSWORD in the environment
ShippedEnv == [PASSWORD_GATE_ENABLED |-> PASSWORD_GATE_ENABLED, LOGIN_PASSWORD |-> Null]

\* String(process.env.LOGIN_PASSWORD || '').trim()
SHARED_LOGIN_PASSWORD ==
    IF IsNull(env.LOGIN_PASSWORD) THEN <<>> ELSE trim(Val(env.LOGIN_PASSWORD))
STANDARD_SIZES == << <<"S">>, <<"M">>, <<"L">>, <<"X","L">>, <<"2","X","L">> >>
MAX_PRICE == 10000
MIN_QUANTITY == 1
MAX_QUANTITY == 50
MAX_SIZES == 12
MAX_SIZE_LENGTH == 12
MAX_INITIALS == 5

DEFAULT_MERCH_ITEMS == <<
    [ id |-> << "t","o","r","c","h","-","h","a","t" >>,
      name |-> << "'","4","7"," ","D","e","l","p","h"," ","H","a","t" >>,
      price |-> 25000,
      image |-> << "/","h","a","t","2",".","p","n","g" >>,
      sizes |-> <<>>,
      allowInitials |-> FALSE,
      paused |-> FALSE,
      twoXlPrice |-> Null,
      createdAt |-> 0 ] >>

-----------------------------------------------------------------------------
(* Catalog storage: normalizePrice .. writeMerchItems.                     *)

\* a stored nullable number as the JSON value read back from the file
StoredNumber(o) == IF IsNull(o) THEN JsNull ELSE JsNumber(Val(o))

normalizePrice(value) ==
    LET amount == ToNumber(value) IN
    IF amount.nan THEN Null
    ELSE IF amount.n <= 0 \/ amount.n > Units(MAX_PRICE) THEN Null
    ELSE Some(RoundToCents(amount.n))

normalizeOptionalPrice(value) ==
    IF value.t \in {"null", "undefined"} \/ (value.t = "string" /\ trim(value.v) = <<>>)
    THEN Null
    ELSE normalizePrice(value)

RECURSIVE normalizeSizesInto(_, _)
normalizeSizesInto(values, output) ==
    IF values = <<>> \/ Len(output) >= MAX_SIZES THEN output
    ELSE LET normalized == toUpperCase(trim(Head(values))) IN
         IF normalized = <<>> \/ Len(normalized) > MAX_SIZE_LENGTH \/ includes(output, normalized)
         THEN normalizeSizesInto(Tail(values), output)
         ELSE normalizeSizesInto(Tail(values), Append(output, normalized))

normalizeSizes(values) == normalizeSizesInto(values, <<>>)

\* normalizeMerchItem of a stored record: Null when the record is dropped
normalizeMerchItem(candidate) ==
    LET id == trim(candidate.id)
        name == trim(candidate.name)
        image == trim(candidate.image)
        price == normalizePrice(JsNumber(candidate.price))
        includeSizes == Len(normalizeSizes(candidate.sizes)) > 0
        twoXlPrice == normalizeOptionalPrice(StoredNumber(candidate.twoXlPrice))
    IN  IF id = <<>> \/ name = <<>> \/ image = <<>> \/ IsNull(price) THEN Null
        ELSE Some([ id |-> id,
                    name |-> name,
                    price |-> Val(price),
                    image |-> image,
                    sizes |-> IF includeSizes THEN STANDARD_SIZES ELSE <<>>,
                    allowInitials |-> candidate.allowInitials,
                    paused |-> candidate.paused,
                    twoXlPrice |-> IF includeSizes THEN twoXlPrice ELSE Null,
                    createdAt |-> candidate.createdAt ])

RECURSIVE NormalizedItems(_)
NormalizedItems(rawItems) ==
    IF rawItems = <<>> THEN <<>>
    ELSE LET item == normalizeMerchItem(Head(rawItems)) IN
         item \o NormalizedItems(Tail(rawItems))

\* a read that seeds the default items whenever the file holds no item
readMerchItemsReseeding ==
    LET normalized == NormalizedItems(merchItems) IN
    IF Len(normalized) > 0 THEN normalized
    ELSE DEFAULT_MERCH_ITEMS

\* the value readMerchItems returns
readMerchItems ==
    LET normalized == NormalizedItems(merchItems) IN
    IF Len(normalized) > 0 THEN normalized
    ELSE IF merchExists THEN <<>>
    ELSE DEFAULT_MERCH_ITEMS

-----------------------------------------------------------------------------
(* Identity: normalizeInitials .. ownerRequired.                           *)

\* /^[A-Z]{1,5}$/ on the trimmed, upper-cased value
normalizeInitials(initials) ==
    LET normalized == toUpperCase(trim(ToStringOrEmpty(initials))) IN
    IF Len(normalized) \in 1..MAX_INITIALS /\ \A i \in 1..Len(normalized) : normalized[i] \in UpperSet
    THEN Some(normalized)
    ELSE Null

\* /^[^\s@]+@[^\s@]+\.[^\s@]+$/
EmailShape(s) ==
    \E a \in 1..Len(s), d \in 1..Len(s) :
        /\ s[a] = "@" /\ a > 1
        /\ s[d] = "." /\ d > a + 1 /\ d < Len(s)
        /\ \A i \in 1..Len(s) : i # a => s[i] \notin (Whitespace \cup {"@"})

normalizeEmail(email) ==
    LET normalized == toLowerCase(trim(ToStringOrEmpty(email))) IN
    IF EmailShape(normalized) THEN Some(normalized) ELSE Null

\* a lookup that compares the stored email as it is written
StoredEmailVerbatim(user) == user.email

\* String(user.email || '').trim().toLowerCase()
StoredEmailKey(user) == toLowerCase(trim(user.email))

\* an owner check that also asks for the approved flag
isOwnerUserIfApproved(user) == StoredEmailKey(user) = OWNER_EMAIL /\ user.approved

isOwnerUser(user) == StoredEmailKey(user) = OWNER_EMAIL

\* a gate that asks no session for the password
isPasswordVerificationNeverRequired(session) == FALSE

isPasswordVerificationRequired(session) == env.PASSWORD_GATE_ENABLED /\ ~session.passwordVerified

\* a createSession that leaves every new session unverified
createSessionUnverified(table, token, userId) ==
    [t \in DOMAIN table \cup {token} |->
        IF t = token
        THEN [userId |-> userId, passwordVerified |-> FALSE]
        ELSE table[t]]

\* createSession: the table with a fresh token added
createSession(table, token, userId) ==
    [t \in DOMAIN table \cup {token} |->
        IF t = token
        THEN [userId |-> userId, passwordVerified |-> ~env.PASSWORD_GATE_ENABLED]
        ELSE table[t]]

\* getAuthContext: Null, or the session and the freshly read user of the token
getAuthContext(token) ==
    IF token \notin DOMAIN sessions THEN Null
    ELSE LET session == sessions[token]
             index == First({i \in 1..Len(users) : users[i].id = session.userId})
         IN  IF index = 0 THEN Null
             ELSE Some([token |-> token, session |-> session, user |-> users[index]])

\* a getAuthContext that keeps the session of a user who is gone
sessionsKeptAfterAuth(token, context) == sessions

\* the session table after getAuthContext: a session whose user is gone is deleted
SessionsAfterAuth(token, context) ==
    IF token \in DOMAIN sessions /\ IsNull(context)
    THEN [t \in DOMAIN sessions \ {token} |-> sessions[t]]
    ELSE sessions

\* authRequired: what it answers (status 200 when it calls next()), req.user, and the session table
authRequired(token) ==
    LET context == getAuthContext(token)
        table == SessionsAfterAuth(token, context)
    IN  IF IsNull(context)
        THEN [status |-> 401, error |-> "Not signed in", user |-> Null, sessions |-> table]
        ELSE IF isPasswordVerificationRequired(Val(context).session)
        THEN [status |-> 403, error |-> "Password verification required", user |-> Null,
              sessions |-> table]
        ELSE [status |-> 200, error |-> "", user |-> Some(Val(context).user), sessions |-> table]

\* an owner check that lets every signed-in user through
ownerRequiredSkipped(auth) == auth

\* ownerRequired, run on what authRequired left
ownerRequired(auth) ==
    IF auth.status # 200 THEN auth
    ELSE IF ~isOwnerUser(Val(auth.user))
    THEN [auth EXCEPT !.status = 403, !.error = "Owner access only"]
    ELSE auth

-----------------------------------------------------------------------------
(* Responses.                                                              *)

UuidDigits == << "1","2","3","4","5","6","7","8","9" >>

\* crypto.randomUUID(): the identifiers drawn are pairwise distinct
randomUUID(prefix, drawn) == << prefix, "-", UuidDigits[drawn + 1] >>

Response(op, req, status, error, body) ==
    [op |-> op, req |-> req, status |-> status, error |-> error, body |-> body]

NoRequest == Response("none", <<>>, 0, "", Null)

-----------------------------------------------------------------------------
(* POST /api/auth/register                                                 *)

fullName(firstName, lastName) == trim(firstName \o <<" ">> \o lastName)

\* a merge that takes every profile field from the request, blank or not
profileOverwritten(existingUser, firstName, lastName, initials) ==
    [existingUser EXCEPT !.firstName = firstName,
                         !.lastName = lastName,
                         !.initials = IF IsNull(initials) THEN << >> ELSE Val(initials),
                         !.name = fullName(firstName, lastName)]

\* the existing user with the profile fields the request supplies merged in
mergedProfile(existingUser, firstName, lastName, initials) ==
    LET withFirst == IF firstName # <<>> /\ trim(existingUser.firstName) # firstName
                     THEN [existingUser EXCEPT !.firstName = firstName] ELSE existingUser
        withLast == IF lastName # <<>> /\ trim(existingUser.lastName) # lastName
                    THEN [withFirst EXCEPT !.lastName = lastName] ELSE withFirst
        withInitials == IF ~IsNull(initials) /\ toUpperCase(trim(existingUser.initials)) # Val(initials)
                        THEN [withLast EXCEPT !.initials = Val(initials)] ELSE withLast
        computedName == fullName(IF firstName # <<>> THEN firstName ELSE withInitials.firstName,
                                 IF lastName # <<>> THEN lastName ELSE withInitials.lastName)
    IN  IF computedName # <<>> /\ trim(existingUser.name) # computedName
        THEN [withInitials EXCEPT !.name = computedName] ELSE withInitials

newUser(email, firstName, lastName, initials) ==
    [ id |-> randomUUID("u", userIds),
      email |-> email,
      provider |-> "email",
      firstName |-> firstName,
      lastName |-> lastName,
      initials |-> initials,
      name |-> fullName(firstName, lastName),
      approved |-> TRUE,
      approvedBy |-> Some(OWNER_EMAIL) ]

\* what the handler answers, and the users file and the user signed in when it succeeds
registerResponse(body) ==
    LET normalizedEmail == normalizeEmail(body.email)
        normalizedFirstName == trim(ToStringOrEmpty(body.firstName))
        normalizedLastName == trim(ToStringOrEmpty(body.lastName))
        normalizedInitials == normalizeInitials(body.initials)
    IN  IF IsNull(normalizedEmail)
        THEN [status |-> 400, error |-> "email is required", users |-> users, user |-> Null]
        ELSE LET index == First({i \in 1..Len(users) : StoredEmailKey(users[i]) = Val(normalizedEmail)})
             IN  IF index > 0
                 THEN LET merged == mergedProfile(users[index], normalizedFirstName,
                                                  normalizedLastName, normalizedInitials)
                      IN  [status |-> 200, error |-> "",
                           users |-> [users EXCEPT ![index] = merged], user |-> Some(merged)]
                 ELSE IF normalizedFirstName = <<>> \/ normalizedLastName = <<>> \/ IsNull(normalizedInitials)
                 THEN [status |-> 400, error |-> "email, firstName, lastName, and initials are required",
                       users |-> users, user |-> Null]
                 ELSE LET user == newUser(Val(normalizedEmail), normalizedFirstName,
                                          normalizedLastName, Val(normalizedInitials))
                      IN  [status |-> 200, error |-> "", users |-> Append(users, user), user |-> Some(user)]

Register(bodies) ==
    \E body \in bodies :
      \E response \in {registerResponse(body)} :
        /\ tokens < MaxSessions
        /\ users' = response.users
        /\ userIds' = userIds + (Len(response.users) - Len(users))
        /\ sessions' = IF response.status = 200
                       THEN createSession(sessions, tokens + 1, Val(response.user).id)
                       ELSE sessions
        /\ tokens' = IF response.status = 200 THEN tokens + 1 ELSE tokens
        /\ last' = Response("register", body, response.status, response.error, response.user)
        /\ cookie' = 0
        /\ UNCHANGED << disk, mail, env, itemIds, merchExists, merchItems, uploads, orders, clock, orderIds,
                        placedOk, firstFulfill >>

-----------------------------------------------------------------------------
(* POST /api/orders                                                        *)
(* Each check of the handler is an operator of its own; the operator that  *)
(* precedes it is a faulty variant of the check, against which the         *)
(* properties of the handler are tested.                                   *)

\* readMerchItems().find((x) => x.id === itemId): strict equality with the request's value
FindRequestedItem(items, itemId) ==
    IF itemId.t # "string" THEN Null
    ELSE LET index == First({i \in 1..Len(items) : items[i].id = itemId.v})
         IN  IF index = 0 THEN Null ELSE Some(items[index])

\* the two quantity checks of the handler pass
quantityAccepted(qty) ==
    ~qty.nan /\ ~(qty.n < Units(MIN_QUANTITY) \/ qty.n > Units(MAX_QUANTITY))

\* the handler's venmo check passes
venmoAccepted(venmoAgreed) == Truthy(venmoAgreed)

pausedItemAccepted(item) == TRUE

\* the handler's availability check passes
itemAvailable(item) == ~item.paused

sizeAcceptedAlways(item, selectedSizeRaw) == TRUE

\* the handler's size checks pass
sizeAccepted(item, selectedSizeRaw) ==
    Len(item.sizes) > 0 => (selectedSizeRaw # <<>> /\ includes(item.sizes, selectedSizeRaw))

storedSize(item, selectedSizeRaw) ==
    IF Len(item.sizes) > 0 THEN Some(selectedSizeRaw) ELSE Null

includeInitialsAsRequested(item, includeInitialsRequested) == includeInitialsRequested

includeInitialsFor(item, includeInitialsRequested) ==
    IF item.allowInitials THEN includeInitialsRequested ELSE FALSE

unitPriceAlwaysBase(item, selectedSize) == item.price

unitPriceFor(item, selectedSize) ==
    LET twoXlPrice == normalizeOptionalPrice(StoredNumber(item.twoXlPrice)) IN
    IF selectedSize = Some(<<"2","X","L">>) /\ ~IsNull(twoXlPrice)
    THEN Val(twoXlPrice)
    ELSE item.price

totalPriceUnrounded(qty, unitPrice) == (qty * unitPrice) \div 1000

totalPriceFor(qty, unitPrice) == RoundProductToCents(qty, unitPrice)

newOrder(user, item, qty, venmoAgreed, selectedSizeRaw, includeInitialsRequested) ==
    LET selectedSize == storedSize(item, selectedSizeRaw)
        unitPrice == unitPriceFor(item, selectedSize)
    IN  [ id |-> randomUUID("o", orderIds),
          itemId |-> item.id,
          itemName |-> item.name,
          includeInitials |-> includeInitialsFor(item, includeInitialsRequested),
          selectedSize |-> selectedSize,
          unitPrice |-> unitPrice,
          totalPrice |-> totalPriceFor(qty, unitPrice),
          quantity |-> qty,
          venmoAgreed |-> Truthy(venmoAgreed),
          userId |-> user.id,
          userName |-> user.name,
          userInitials |-> user.initials,
          userEmail |-> user.email,
          fulfilled |-> FALSE,
          fulfilledAt |-> Null,
          fulfilledBy |-> Null,
          createdAt |-> clock ]

\* a handler that awaits the first delivery attempt before it answers
placeOrderEventsAwaiting == << "persisted", "attempt", "responded" >>

\* what POST /api/orders does with an accepted order, in the order of its statements:
\* writeJsonArray, setImmediate, res.json
placeOrderEvents == << "persisted", "scheduled", "responded" >>

\* the notification of an order as the handler leaves it: the callback handed to
\* setImmediate, and the emailStatus the response carries
scheduledNotification(order) ==
    [ orderId |-> order.id,
      pc |-> "scheduled",
      attempt |-> 0,
      lastError |-> Null,
      result |-> Null,
      emailStatus |-> [queued |-> TRUE],
      trace |-> placeOrderEvents ]

pushOrderOverLast(list, order) ==
    IF list = <<>> THEN <<order>> ELSE [list EXCEPT ![Len(list)] = order]

\* orders.push(order) on the array just read from the file
pushOrder(list, order) == Append(list, order)

\* the handler from the item lookup on: found is what find() returned
placeOrderOfItem(user, body, qty, found) ==
    LET selectedSizeRaw == toUpperCase(trim(ToStringOrEmpty(body.selectedSize))) IN
    IF IsNull(found) THEN Response("placeOrder", body, 404, "Merch item not found", Null)
    ELSE IF ~itemAvailable(Val(found))
    THEN Response("placeOrder", body, 400, "This item is currently unavailable", Null)
    ELSE IF Len(Val(found).sizes) > 0 /\ selectedSizeRaw = <<>>
    THEN Response("placeOrder", body, 400, "Please select a size", Null)
    ELSE IF ~sizeAccepted(Val(found), selectedSizeRaw)
    THEN Response("placeOrder", body, 400, "Selected size is not valid for this item", Null)
    ELSE Response("placeOrder", body, 200, "",
                  Some(newOrder(user, Val(found), qty, body.venmoAgreed,
                                selectedSizeRaw, Truthy(body.includeInitials))))

\* the handler proper, run for req.user once authRequired has passed
placeOrderResponse(user, body) ==
    LET qty == ToNumber(body.quantity) IN
    IF ~Truthy(body.itemId) \/ qty.nan
    THEN Response("placeOrder", body, 400, "itemId and quantity are required", Null)
    ELSE IF ~quantityAccepted(qty)
    THEN Response("placeOrder", body, 400, "Quantity must be between 1 and 50", Null)
    ELSE IF ~venmoAccepted(body.venmoAgreed)
    THEN Response("placeOrder", body, 400, "You must agree to pay via Venmo", Null)
    ELSE placeOrderOfItem(user, body, qty.n, FindRequestedItem(readMerchItems, body.itemId))

\* the handler reached readMerchItems(): the checks before it passed
placeOrderReadsCatalog(response) ==
    response.status \in {200, 404}
    \/ response.error \in { "This item is currently unavailable", "Please select a size",
                            "Selected size is not valid for this item" }

PlaceOrder(tokenSet, bodies, cap) ==
    \E token \in tokenSet, body \in bodies :
      \E auth \in {authRequired(token)} :
        \E response \in {IF auth.status # 200
                         THEN Response("placeOrder", body, auth.status, auth.error, Null)
                         ELSE placeOrderResponse(Val(auth.user), body)} :
          LET accepted == response.status = 200
              seeds == placeOrderReadsCatalog(response) /\ ~merchExists
          IN  /\ orderIds < cap
              /\ last' = response
              /\ cookie' = token
              /\ sessions' = auth.sessions
              /\ merchExists' = (merchExists \/ seeds)
              /\ merchItems' = IF seeds THEN DEFAULT_MERCH_ITEMS ELSE merchItems
              /\ orders' = IF accepted THEN pushOrder(orders, Val(response.body)) ELSE orders
              /\ orderIds' = IF accepted THEN orderIds + 1 ELSE orderIds
              /\ placedOk' = IF accepted THEN placedOk + 1 ELSE placedOk
              /\ mail' = IF accepted THEN Append(mail, scheduledNotification(Val(response.body))) ELSE mail
              /\ disk' = disk
              /\ UNCHANGED << env, itemIds, users, uploads, clock, tokens, userIds, firstFulfill >>

-----------------------------------------------------------------------------
(* POST /api/admin/orders/:orderId/fulfill                                 *)

\* existing.userInitials, or the initials of the user of the order, or ''
fallbackInitialsFor(existing) ==
    IF existing.userInitials # <<>> THEN existing.userInitials
    ELSE LET matched == First({i \in 1..Len(users) : users[i].id = existing.userId})
         IN  IF matched > 0 THEN users[matched].initials ELSE <<>>

fulfilledOrderLastWriteWins(existing, user) ==
    [existing EXCEPT !.userInitials = fallbackInitialsFor(existing),
                     !.fulfilled = TRUE,
                     !.fulfilledAt = Some(clock),
                     !.fulfilledBy = Some(user.email)]

fulfilledOrderToggles(existing, user) ==
    [existing EXCEPT !.userInitials = fallbackInitialsFor(existing),
                     !.fulfilled = ~existing.fulfilled,
                     !.fulfilledAt = OrElse(existing.fulfilledAt, Some(clock)),
                     !.fulfilledBy = OrElse(existing.fulfilledBy, Some(user.email))]

\* a fulfill that stores the email of the owner as the email of the order
fulfilledOrderReassigned(existing, user) ==
    [existing EXCEPT !.userInitials = fallbackInitialsFor(existing),
                     !.userEmail = user.email,
                     !.fulfilled = TRUE,
                     !.fulfilledAt = OrElse(existing.fulfilledAt, Some(clock)),
                     !.fulfilledBy = OrElse(existing.fulfilledBy, Some(user.email))]

\* a fulfill that does not record who fulfilled
fulfilledOrderUnsigned(existing, user) ==
    [existing EXCEPT !.userInitials = fallbackInitialsFor(existing),
                     !.fulfilled = TRUE,
                     !.fulfilledAt = OrElse(existing.fulfilledAt, Some(clock))]

\* updatedOrder
fulfilledOrder(existing, user) ==
    [existing EXCEPT !.userInitials = fallbackInitialsFor(existing),
                     !.fulfilled = TRUE,
                     !.fulfilledAt = OrElse(existing.fulfilledAt, Some(clock)),
                     !.fulfilledBy = OrElse(existing.fulfilledBy, Some(user.email))]

\* the handler proper, run for req.user once authRequired and ownerRequired have passed
fulfillResponse(user, param) ==
    LET orderId == trim(param) IN
    IF orderId = <<>> THEN Response("fulfill", param, 400, "orderId is required", Null)
    ELSE LET orderIndex == First({i \in 1..Len(orders) : orders[i].id = orderId}) IN
         IF orderIndex = 0 THEN Response("fulfill", param, 404, "Order not found", Null)
         ELSE Response("fulfill", param, 200, "", Some(fulfilledOrder(orders[orderIndex], user)))

\* history: the audit values of the first successful fulfill of the order, and
\* whether a later successful fulfill of it came at a later time
FulfillRecorded(history, id, at, by) ==
    [k \in DOMAIN history \cup {id} |->
        IF k # id THEN history[k]
        ELSE IF id \in DOMAIN history
        THEN [history[id] EXCEPT !.again = history[id].again \/ at > history[id].at]
        ELSE [at |-> at, by |-> by, again |-> FALSE]]

FulfillOrder(tokenSet, params) ==
    \E token \in tokenSet, param \in params :
      \E auth \in {ownerRequired(authRequired(token))} :
        \E response \in {IF auth.status # 200
                         THEN Response("fulfill", param, auth.status, auth.error, Null)
                         ELSE fulfillResponse(Val(auth.user), param)} :
          LET accepted == response.status = 200
              orderIndex == First({i \in 1..Len(orders) : orders[i].id = trim(param)})
          IN  /\ last' = response
              /\ cookie' = token
              /\ sessions' = auth.sessions
              /\ orders' = IF accepted
                           THEN [orders EXCEPT ![orderIndex] = Val(response.body)]
                           ELSE orders
              /\ firstFulfill' = IF accepted
                                 THEN FulfillRecorded(firstFulfill, Val(response.body).id, clock,
                                                      Val(auth.user).email)
                                 ELSE firstFulfill
              /\ UNCHANGED << disk, mail, env, itemIds, users, merchExists, merchItems, uploads, clock, tokens, userIds,
                              orderIds, placedOk >>

-----------------------------------------------------------------------------
(* PATCH /api/admin/merch/:itemId and DELETE /api/admin/merch/:itemId      *)

\* a property the request body does not have
Absent == [t |-> "absent", v |-> <<>>]
Has(field) == field.t # "absent"

Patch(includeSizes, allowInitials, paused, twoXlPrice) ==
    [includeSizes |-> includeSizes, allowInitials |-> allowInitials,
     paused |-> paused, twoXlPrice |-> twoXlPrice]

\* an update that turns the sizes off and keeps the 2XL price
patchedFlagsKeepingPrice(current, patch) ==
    LET withSizes == IF Has(patch.includeSizes)
                     THEN [current EXCEPT
                             !.sizes = IF Truthy(patch.includeSizes) THEN STANDARD_SIZES ELSE <<>>,
                             !.twoXlPrice = current.twoXlPrice]
                     ELSE current
        withInitials == IF Has(patch.allowInitials)
                        THEN [withSizes EXCEPT !.allowInitials = Truthy(patch.allowInitials)]
                        ELSE withSizes
    IN  IF Has(patch.paused) THEN [withInitials EXCEPT !.paused = Truthy(patch.paused)]
        ELSE withInitials

\* an update that replaces the three flags: a flag the request does not name is turned off
patchedFlagsReplacing(current, patch) ==
    LET on == Has(patch.includeSizes) /\ Truthy(patch.includeSizes) IN
    [current EXCEPT !.sizes = IF on THEN STANDARD_SIZES ELSE <<>>,
                    !.twoXlPrice = IF on THEN current.twoXlPrice ELSE Null,
                    !.allowInitials = Has(patch.allowInitials) /\ Truthy(patch.allowInitials),
                    !.paused = Has(patch.paused) /\ Truthy(patch.paused)]

\* the item with the sizes, initials and pause fields of the patch applied
patchedFlags(current, patch) ==
    LET withSizes == IF Has(patch.includeSizes)
                     THEN [current EXCEPT
                             !.sizes = IF Truthy(patch.includeSizes) THEN STANDARD_SIZES ELSE <<>>,
                             !.twoXlPrice = IF Truthy(patch.includeSizes) THEN current.twoXlPrice ELSE Null]
                     ELSE current
        withInitials == IF Has(patch.allowInitials)
                        THEN [withSizes EXCEPT !.allowInitials = Truthy(patch.allowInitials)]
                        ELSE withSizes
    IN  IF Has(patch.paused) THEN [withInitials EXCEPT !.paused = Truthy(patch.paused)]
        ELSE withInitials

\* req.body.twoXlPrice !== null && req.body.twoXlPrice !== ''
NeitherNullNorEmpty(value) == ~(value.t = "null" \/ (value.t = "string" /\ value.v = <<>>))

\* the handler from readMerchItems() on: what it answers and the items it writes on success
updateItemOf(items, itemId, patch, req) ==
    LET index == First({i \in 1..Len(items) : items[i].id = itemId})
        updated == patchedFlags(items[index], patch)
        normalizedTwoXlPrice == normalizeOptionalPrice(patch.twoXlPrice)
        written == IF Has(patch.twoXlPrice)
                   THEN [updated EXCEPT !.twoXlPrice = normalizedTwoXlPrice]
                   ELSE updated
    IN  IF index = 0
        THEN [response |-> Response("updateItem", req, 404, "Product not found", Null), items |-> items]
        ELSE IF Has(patch.twoXlPrice) /\ Len(updated.sizes) = 0
        THEN [response |-> Response("updateItem", req, 400, "Enable sizes before setting a 2XL price", Null),
              items |-> items]
        ELSE IF Has(patch.twoXlPrice) /\ NeitherNullNorEmpty(patch.twoXlPrice)
                /\ IsNull(normalizedTwoXlPrice)
        THEN [response |-> Response("updateItem", req, 400, "2XL price must be a valid amount", Null),
              items |-> items]
        ELSE [response |-> Response("updateItem", req, 200, "", Some(written)),
              items |-> [items EXCEPT ![index] = written]]

\* the handler proper, run once authRequired and ownerRequired have passed
updateItemResponse(param, patch) ==
    LET itemId == trim(param)
        req == [itemId |-> param, patch |-> patch]
    IN  IF itemId = <<>>
        THEN [response |-> Response("updateItem", req, 400, "itemId is required", Null), items |-> <<>>]
        ELSE IF ~Has(patch.includeSizes) /\ ~Has(patch.allowInitials)
                /\ ~Has(patch.paused) /\ ~Has(patch.twoXlPrice)
        THEN [response |-> Response("updateItem", req, 400, "No product updates provided", Null),
              items |-> <<>>]
        ELSE updateItemOf(readMerchItems, itemId, patch, req)

\* the handler reached readMerchItems(): the checks before it passed
catalogHandlerReadsCatalog(response) ==
    response.status \in {200, 404}
    \/ response.error \in { "Enable sizes before setting a 2XL price",
                            "2XL price must be a valid amount" }

\* an update that writes the flags of the request before it checks the 2XL price
itemsWrittenBeforePriceCheck(result, seeds) ==
    IF result.response.status = 200 THEN result.items
    ELSE IF result.response.error = "2XL price must be a valid amount"
    THEN [i \in DOMAIN readMerchItems |->
            IF readMerchItems[i].id = trim(result.response.req.itemId)
            THEN patchedFlags(readMerchItems[i], result.response.req.patch)
            ELSE readMerchItems[i]]
    ELSE IF seeds THEN DEFAULT_MERCH_ITEMS
    ELSE merchItems

\* merch-items.json after the handler: written by writeMerchItems at its end, seeded by
\* readMerchItems, or left alone
itemsAfterUpdate(result, seeds) ==
    IF result.response.status = 200 THEN result.items
    ELSE IF seeds THEN DEFAULT_MERCH_ITEMS
    ELSE merchItems

UpdateItem(tokenSet, params, patches) ==
    \E token \in tokenSet, param \in params, patch \in patches :
      \E auth \in {ownerRequired(authRequired(token))} :
        \E result \in {IF auth.status # 200
                       THEN [response |-> Response("updateItem", [itemId |-> param, patch |-> patch],
                                                   auth.status, auth.error, Null),
                             items |-> <<>>]
                       ELSE updateItemResponse(param, patch)} :
          LET seeds == catalogHandlerReadsCatalog(result.response) /\ ~merchExists
          IN  /\ last' = result.response
              /\ cookie' = token
              /\ sessions' = auth.sessions
              /\ merchExists' = (merchExists \/ seeds)
              /\ merchItems' = itemsAfterUpdate(result, seeds)
              /\ UNCHANGED << disk, mail, env, itemIds, users, uploads, orders, clock, tokens, userIds, orderIds,
                              placedOk, firstFulfill >>

\* path.basename of an image path: what follows its last slash
basename(path) ==
    LET slashes == {i \in 1..Len(path) : path[i] = "/"} IN
    IF slashes = {} THEN path
    ELSE SubSeq(path, (CHOOSE i \in slashes : \A j \in slashes : j <= i) + 1, Len(path))

\* /^[A-Za-z0-9._-]+$/
SafeFilename(filename) ==
    /\ filename # <<>>
    /\ \A i \in 1..Len(filename) :
          filename[i] \in LowerSet \cup UpperSet \cup DigitSet \cup {".", "_", "-"}

\* a delete that empties the uploads directory
uploadsClearedOnDelete(removed) == {}

\* the uploads directory after the removed item's image is released
uploadsAfterDelete(removed) ==
    LET filename == basename(removed.image) IN
    IF startsWith(removed.image, << "/","u","p","l","o","a","d","s","/" >>) /\ SafeFilename(filename)
    THEN uploads \ {filename}
    ELSE uploads

\* the uploads directory after a delete request: fs.unlinkSync removes the file or
\* throws, and the handler ignores the failure
releasedUploads(response) ==
    IF response.status = 200 THEN {uploadsAfterDelete(Val(response.body)), uploads} ELSE {uploads}

\* items.splice(index, 1)
RemoveAt(list, index) == SubSeq(list, 1, index - 1) \o SubSeq(list, index + 1, Len(list))

\* the handler from readMerchItems() on: what it answers and the items it writes on success
deleteItemOf(items, itemId, param) ==
    LET index == First({i \in 1..Len(items) : items[i].id = itemId}) IN
    IF index = 0
    THEN [response |-> Response("deleteItem", param, 404, "Product not found", Null), items |-> items]
    ELSE [response |-> Response("deleteItem", param, 200, "", Some(items[index])),
          items |-> RemoveAt(items, index)]

\* the handler proper, run once authRequired and ownerRequired have passed
deleteItemResponse(param) ==
    IF trim(param) = <<>>
    THEN [response |-> Response("deleteItem", param, 400, "itemId is required", Null), items |-> <<>>]
    ELSE deleteItemOf(readMerchItems, trim(param), param)

\* a delete that cascades to the orders of the deleted item
DeleteItemCascading(tokenSet, params) ==
    \E token \in tokenSet, param \in params :
      \E auth \in {ownerRequired(authRequired(token))} :
        \E result \in {IF auth.status # 200
                       THEN [response |-> Response("deleteItem", param, auth.status, auth.error, Null),
                             items |-> <<>>]
                       ELSE deleteItemResponse(param)} :
          LET deleted == result.response.status = 200
              seeds == result.response.status = 404 /\ ~merchExists
          IN  /\ last' = result.response
              /\ cookie' = token
              /\ sessions' = auth.sessions
              /\ merchExists' = (merchExists \/ seeds \/ deleted)
              /\ merchItems' = IF deleted THEN result.items
                               ELSE IF seeds THEN DEFAULT_MERCH_ITEMS
                               ELSE merchItems
              /\ \E released \in releasedUploads(result.response) : uploads' = released
              /\ orders' = IF deleted
                           THEN SelectSeq(orders, LAMBDA order : order.itemId # trim(param))
                           ELSE orders
              /\ UNCHANGED << disk, mail, env, itemIds, users, clock, tokens, userIds, orderIds, placedOk, firstFulfill >>

DeleteItem(tokenSet, params) ==
    \E token \in tokenSet, param \in params :
      \E auth \in {ownerRequired(authRequired(token))} :
        \E result \in {IF auth.status # 200
                       THEN [response |-> Response("deleteItem", param, auth.status, auth.error, Null),
                             items |-> <<>>]
                       ELSE deleteItemResponse(param)} :
          LET deleted == result.response.status = 200
              seeds == result.response.status = 404 /\ ~merchExists
          IN  /\ last' = result.response
              /\ cookie' = token
              /\ sessions' = auth.sessions
              /\ merchExists' = (merchExists \/ seeds \/ deleted)
              /\ merchItems' = IF deleted THEN result.items
                               ELSE IF seeds THEN DEFAULT_MERCH_ITEMS
                               ELSE merchItems
              /\ \E released \in releasedUploads(result.response) : uploads' = released
              /\ UNCHANGED << disk, mail, env, itemIds, users, orders, clock, tokens, userIds, orderIds, placedOk, firstFulfill >>

-----------------------------------------------------------------------------
(* POST /api/auth/login                                                    *)

\* the characters of s up to its first whitespace character
firstWord(s) ==
    LET gaps == {i \in 1..Len(s) : s[i] \in Whitespace} IN
    IF gaps = {} THEN s ELSE SubSeq(s, 1, First(gaps) - 1)

\* parts.slice(1).join(' '): the words of s joined by single spaces
RECURSIVE joinWords(_)
joinWords(s) ==
    LET rest == trimStart(s) IN
    IF rest = <<>> THEN <<>>
    ELSE LET word == firstWord(rest)
             others == joinWords(SubSeq(rest, Len(word) + 1, Len(rest)))
         IN  IF others = <<>> THEN word ELSE word \o <<" ">> \o others

splitName(name) ==
    LET trimmed == trim(name)
        word == firstWord(trimmed)
    IN  [firstName |-> word, lastName |-> joinWords(SubSeq(trimmed, Len(word) + 1, Len(trimmed)))]

\* `${firstName.charAt(0)}${lastName.charAt(0)}`.toUpperCase()
buildInitials(firstName, lastName) ==
    toUpperCase(SubSeq(firstName, 1, IF firstName = <<>> THEN 0 ELSE 1)
                  \o SubSeq(lastName, 1, IF lastName = <<>> THEN 0 ELSE 1))

profileIsComplete(user) ==
    /\ trim(user.firstName) # <<>>
    /\ trim(user.lastName) # <<>>
    /\ ~IsNull(normalizeInitials(JsString(user.initials)))

profileSuggestion(preferredName) ==
    LET split == splitName(preferredName) IN
    [firstName |-> split.firstName, lastName |-> split.lastName,
     initials |-> buildInitials(split.firstName, split.lastName)]

\* String(a || b || c).trim() || c
firstNonEmpty(a, b, c) ==
    LET chosen == trim(IF a # <<>> THEN a ELSE IF b # <<>> THEN b ELSE c) IN
    IF chosen # <<>> THEN chosen ELSE c

\* the profile left as it was stored
profileLeftAsStored(user, fallback) == user

\* the user with the missing profile fields filled in
completedProfile(user, fallback) ==
    LET firstName == firstNonEmpty(user.firstName, fallback.firstName, <<"C","l","u","b">>)
        lastName == firstNonEmpty(user.lastName, fallback.lastName, <<"M","e","m","b","e","r">>)
        kept == normalizeInitials(JsString(user.initials))
        built == normalizeInitials(JsString(buildInitials(firstName, lastName)))
    IN  [user EXCEPT !.firstName = firstName,
                     !.lastName = lastName,
                     !.initials = IF ~IsNull(kept) THEN Val(kept)
                                  ELSE IF ~IsNull(built) THEN Val(built)
                                  ELSE <<"D","C">>,
                     !.name = fullName(firstName, lastName)]

\* the user as login leaves it: email normalized, profile completed, approved
loggedInUser(user, normalizedEmail) ==
    LET withEmail == [user EXCEPT !.email = normalizedEmail]
        withProfile == IF profileIsComplete(withEmail) THEN withEmail
                       ELSE completedProfile(withEmail,
                                profileSuggestion(IF withEmail.name # <<>> THEN withEmail.name
                                                  ELSE normalizedEmail))
    IN  IF withProfile.approved THEN withProfile
        ELSE [withProfile EXCEPT !.approved = TRUE,
                                 !.approvedBy = IF IsNull(withProfile.approvedBy)
                                                THEN Some(OWNER_EMAIL)
                                                ELSE withProfile.approvedBy]

\* what the handler answers, and the users file and the user signed in when it succeeds
loginResponse(body) ==
    LET normalizedEmail == normalizeEmail(body.email) IN
    IF IsNull(normalizedEmail)
    THEN [status |-> 400, error |-> "email is required", users |-> users, user |-> Null]
    ELSE LET index == First({i \in 1..Len(users) : StoredEmailKey(users[i]) = Val(normalizedEmail)})
         IN  IF index = 0
             THEN [status |-> 404, error |-> "Account not found. Create an account first.",
                   users |-> users, user |-> Null]
             ELSE LET user == loggedInUser(users[index], Val(normalizedEmail))
                  IN  [status |-> 200, error |-> "",
                       users |-> [users EXCEPT ![index] = user], user |-> Some(user)]

Login(bodies) ==
    \E body \in bodies :
      \E response \in {loginResponse(body)} :
        /\ tokens < MaxSessions
        /\ users' = response.users
        /\ sessions' = IF response.status = 200
                       THEN createSession(sessions, tokens + 1, Val(response.user).id)
                       ELSE sessions
        /\ tokens' = IF response.status = 200 THEN tokens + 1 ELSE tokens
        /\ last' = Response("login", body, response.status, response.error, response.user)
        /\ cookie' = 0
        /\ UNCHANGED << disk, mail, env, itemIds, merchExists, merchItems, uploads, orders, clock, userIds, orderIds,
                        placedOk, firstFulfill >>

-----------------------------------------------------------------------------
(* POST /api/auth/verify-password, POST /api/auth/logout, GET /api/auth/me *)

\* a verification that marks every session of the user of the token
passwordVerifiedForUser(table, token) ==
    [t \in DOMAIN table |->
        IF table[t].userId = table[token].userId
        THEN [table[t] EXCEPT !.passwordVerified = TRUE]
        ELSE table[t]]

\* the session table with the session of the token marked as verified
passwordVerifiedSessions(table, token) ==
    [table EXCEPT ![token] = [table[token] EXCEPT !.passwordVerified = TRUE]]

\* a verify-password that accepts whatever a signed-in session sends
verifyPasswordAlwaysAccepts(token, body, context, table) ==
    IF IsNull(context)
    THEN [response |-> Response("verifyPassword", body, 401, "Sign in first", Null),
          sessions |-> table]
    ELSE [response |-> Response("verifyPassword", body, 200, "", Null),
          sessions |-> passwordVerifiedSessions(table, token)]

\* what verify-password answers and the session table it leaves
verifyPasswordResponse(token, body, context, table) ==
    LET password == ToStringOrEmpty(body.password) IN
    IF IsNull(context)
    THEN [response |-> Response("verifyPassword", body, 401, "Sign in first", Null),
          sessions |-> table]
    ELSE IF ~env.PASSWORD_GATE_ENABLED
    THEN [response |-> Response("verifyPassword", body, 200, "", Null),
          sessions |-> passwordVerifiedSessions(table, token)]
    ELSE IF SHARED_LOGIN_PASSWORD = <<>>
    THEN [response |-> Response("verifyPassword", body, 503,
                                "Password verification is not configured on the server", Null),
          sessions |-> table]
    ELSE IF password = <<>>
    THEN [response |-> Response("verifyPassword", body, 400, "password is required", Null),
          sessions |-> table]
    ELSE IF password # SHARED_LOGIN_PASSWORD
    THEN [response |-> Response("verifyPassword", body, 401, "Incorrect password", Null),
          sessions |-> table]
    ELSE [response |-> Response("verifyPassword", body, 200, "", Null),
          sessions |-> passwordVerifiedSessions(table, token)]

VerifyPassword(tokenSet, bodies) ==
    \E token \in tokenSet, body \in bodies :
      \E context \in {getAuthContext(token)} :
        \E result \in {verifyPasswordResponse(token, body, context,
                                              SessionsAfterAuth(token, context))} :
          /\ last' = result.response
          /\ cookie' = token
          /\ sessions' = result.sessions
          /\ UNCHANGED << disk, mail, env, itemIds, users, merchExists, merchItems, uploads, orders, clock, tokens,
                          userIds, orderIds, placedOk, firstFulfill >>

\* a logout that leaves the session in the table
sessionsKeptOnLogout(table, token) == table

\* sessions.delete(token)
sessionsAfterLogout(table, token) == [t \in DOMAIN table \ {token} |-> table[t]]

Logout(tokenSet) ==
    \E token \in tokenSet :
      /\ last' = Response("logout", <<>>, 200, "", Null)
      /\ cookie' = token
      /\ sessions' = IF token # 0 THEN sessionsAfterLogout(sessions, token) ELSE sessions
      /\ UNCHANGED << disk, mail, env, itemIds, users, merchExists, merchItems, uploads, orders, clock, tokens,
                      userIds, orderIds, placedOk, firstFulfill >>

userPublicShape(user) ==
    [id |-> user.id, name |-> user.name, firstName |-> user.firstName, lastName |-> user.lastName,
     initials |-> user.initials, email |-> user.email, isOwner |-> isOwnerUser(user)]

meResponse(context) ==
    IF IsNull(context) THEN Response("me", <<>>, 401, "Not signed in", Null)
    ELSE Response("me", <<>>, 200, "",
                  Some([user |-> userPublicShape(Val(context).user),
                        passwordRequired |-> isPasswordVerificationRequired(Val(context).session)]))

GetMe(tokenSet) ==
    \E token \in tokenSet :
      \E context \in {getAuthContext(token)} :
        /\ last' = meResponse(context)
        /\ cookie' = token
        /\ sessions' = SessionsAfterAuth(token, context)
        /\ UNCHANGED << disk, mail, env, itemIds, users, merchExists, merchItems, uploads, orders, clock, tokens,
                        userIds, orderIds, placedOk, firstFulfill >>

-----------------------------------------------------------------------------
(* GET /api/merch, GET /api/admin/merch, POST /api/admin/merch             *)

\* a public listing that shows the paused items too
pausedItemsListed(items) == items

\* readMerchItems().filter((item) => !item.paused)
unpausedItems(items) == SelectSeq(items, LAMBDA item : ~item.paused)

ListMerch(tokenSet) ==
    \E token \in tokenSet :
      \E auth \in {authRequired(token)} :
        /\ last' = IF auth.status # 200
                   THEN Response("listMerch", <<>>, auth.status, auth.error, Null)
                   ELSE Response("listMerch", <<>>, 200, "", Some(unpausedItems(readMerchItems)))
        /\ cookie' = token
        /\ sessions' = auth.sessions
        /\ merchExists' = (merchExists \/ auth.status = 200)
        /\ merchItems' = IF auth.status = 200 /\ ~merchExists THEN readMerchItems ELSE merchItems
        /\ UNCHANGED << disk, mail, env, users, uploads, orders, clock, tokens, userIds, orderIds, itemIds,
                        placedOk, firstFulfill >>

ListAdminMerch(tokenSet) ==
    \E token \in tokenSet :
      \E auth \in {ownerRequired(authRequired(token))} :
        /\ last' = IF auth.status # 200
                   THEN Response("listAdminMerch", <<>>, auth.status, auth.error, Null)
                   ELSE Response("listAdminMerch", <<>>, 200, "", Some(readMerchItems))
        /\ cookie' = token
        /\ sessions' = auth.sessions
        /\ merchExists' = (merchExists \/ auth.status = 200)
        /\ merchItems' = IF auth.status = 200 /\ ~merchExists THEN readMerchItems ELSE merchItems
        /\ UNCHANGED << disk, mail, env, users, uploads, orders, clock, tokens, userIds, orderIds, itemIds,
                        placedOk, firstFulfill >>

DataUrlPrefix ==
    << "d","a","t","a",":","i","m","a","g","e","/","p","n","g",";","b","a","s","e","6","4","," >>

\* /^data:image\/png;base64,([A-Za-z0-9+/=]+)$/: the base64 text, Null when the value does not match
pngPayload(imageDataUrl) ==
    LET payload == SubSeq(imageDataUrl, Len(DataUrlPrefix) + 1, Len(imageDataUrl)) IN
    IF /\ startsWith(imageDataUrl, DataUrlPrefix)
       /\ payload # <<>>
       /\ \A i \in 1..Len(payload) :
             payload[i] \in LowerSet \cup UpperSet \cup DigitSet \cup {"+", "/", "="}
    THEN Some(payload)
    ELSE Null

\* Buffer.from(payload, 'base64').length: decoding stops at the first '='
decodedLength(payload) ==
    LET pads == {i \in 1..Len(payload) : payload[i] = "="}
        digits == IF pads = {} THEN Len(payload) ELSE First(pads) - 1
    IN  (digits * 6) \div 8

\* `item-${Date.now()}-${crypto.randomBytes(2).toString('hex')}`
newItemId == << "i","t","e","m","-", UuidDigits[clock + 1], "-", UuidDigits[itemIds + 1] >>

\* saveUploadedPngDataUrl: the error, or the name of the file written
saveUploadedPngDataUrl(imageDataUrl, itemId) ==
    LET payload == pngPayload(trim(imageDataUrl)) IN
    IF IsNull(payload) THEN [error |-> "Image must be a PNG upload", filename |-> <<>>]
    ELSE IF decodedLength(Val(payload)) = 0
    THEN [error |-> "Uploaded image is empty", filename |-> <<>>]
    ELSE [error |-> "", filename |-> itemId \o << "-", "f", ".", "p", "n", "g" >>]

createdItem(body, price, filename) ==
    LET includeSizes == Truthy(body.includeSizes) IN
    [ id |-> newItemId,
      name |-> trim(ToStringOrEmpty(body.name)),
      price |-> price,
      image |-> << "/","u","p","l","o","a","d","s","/" >> \o filename,
      sizes |-> IF includeSizes THEN STANDARD_SIZES ELSE <<>>,
      allowInitials |-> Truthy(body.allowInitials),
      paused |-> FALSE,
      twoXlPrice |-> IF includeSizes THEN normalizeOptionalPrice(body.twoXlPrice) ELSE Null,
      createdAt |-> clock ]

\* the checks of the handler on the 2XL price: the error, "" when they pass
createItemPriceError(body, price, twoXlPrice) ==
    IF Truthy(body.includeSizes) /\ body.twoXlPrice.t # "undefined" /\ IsNull(twoXlPrice)
    THEN "2XL price must be a valid amount"
    ELSE IF ~Truthy(body.includeSizes) /\ ~IsNull(twoXlPrice)
    THEN "Enable sizes before setting a 2XL price"
    ELSE ""

\* what the handler answers, the catalog it writes and the file it uploads
createItemResponse(body) ==
    LET name == trim(ToStringOrEmpty(body.name))
        price == normalizePrice(body.price)
        imageDataUrl == trim(ToStringOrEmpty(body.imageDataUrl))
        priceError == createItemPriceError(body, price, normalizeOptionalPrice(body.twoXlPrice))
        uploadResult == saveUploadedPngDataUrl(imageDataUrl, newItemId)
        rejected(status, error) ==
            [response |-> Response("createItem", body, status, error, Null),
             items |-> <<>>, filename |-> <<>>]
    IN  IF name = <<>> THEN rejected(400, "Product name is required")
        ELSE IF IsNull(price) THEN rejected(400, "Valid price is required")
        ELSE IF imageDataUrl = <<>> THEN rejected(400, "PNG image is required")
        ELSE IF priceError # "" THEN rejected(400, priceError)
        ELSE IF uploadResult.error # "" THEN rejected(400, uploadResult.error)
        ELSE LET item == createdItem(body, Val(price), uploadResult.filename)
             IN  [response |-> Response("createItem", body, 200, "", Some(item)),
                  items |-> Append(readMerchItems, item),
                  filename |-> uploadResult.filename]

CreateItem(tokenSet, bodies, limit) ==
    \E token \in tokenSet, body \in bodies :
      \E auth \in {ownerRequired(authRequired(token))} :
        \E result \in {IF auth.status # 200
                       THEN [response |-> Response("createItem", body, auth.status, auth.error, Null),
                             items |-> <<>>, filename |-> <<>>]
                       ELSE createItemResponse(body)} :
          LET created == result.response.status = 200
          IN  /\ itemIds < limit
              /\ last' = result.response
              /\ cookie' = token
              /\ sessions' = auth.sessions
              /\ merchExists' = (merchExists \/ created)
              /\ merchItems' = IF created THEN result.items ELSE merchItems
              /\ uploads' = IF created THEN uploads \cup {result.filename} ELSE uploads
              /\ itemIds' = IF created THEN itemIds + 1 ELSE itemIds
              /\ UNCHANGED << disk, mail, env, users, orders, clock, tokens, userIds, orderIds,
                              placedOk, firstFulfill >>

-----------------------------------------------------------------------------
(* GET /api/admin/orders and GET /api/orders                               *)

\* the order as the listings return it
enrichedOrder(order) == [order EXCEPT !.userInitials = fallbackInitialsFor(order)]

\* the position a stable descending sort gives an entry among those already placed
RECURSIVE insertDescending(_, _)
insertDescending(sorted, entry) ==
    IF sorted = <<>> THEN << entry >>
    ELSE IF Head(sorted).key >= entry.key
    THEN << Head(sorted) >> \o insertDescending(Tail(sorted), entry)
    ELSE << entry >> \o sorted

RECURSIVE sortDescending(_)
sortDescending(entries) ==
    IF entries = <<>> THEN <<>>
    ELSE insertDescending(sortDescending(SubSeq(entries, 1, Len(entries) - 1)),
                          entries[Len(entries)])

\* list.sort((a, b) => String(b.createdAt).localeCompare(String(a.createdAt)))
byCreatedAt(list) ==
    LET sorted == sortDescending([i \in 1..Len(list) |-> [key |-> list[i].createdAt, order |-> list[i]]])
    IN  [i \in 1..Len(sorted) |-> sorted[i].order]

\* the fulfilled orders left in the order of the file
inStorageOrder(list) == list

\* list.sort by fulfilledAt || createdAt, latest first
byFulfilledAt(list) ==
    LET sorted == sortDescending([i \in 1..Len(list) |->
                      [key |-> IF IsNull(list[i].fulfilledAt) THEN list[i].createdAt
                               ELSE Val(list[i].fulfilledAt),
                       order |-> list[i]]])
    IN  [i \in 1..Len(sorted) |-> sorted[i].order]

adminOrdersBody(enriched) ==
    [openOrders |-> byCreatedAt(SelectSeq(enriched, LAMBDA order : ~order.fulfilled)),
     fulfilledOrders |-> byFulfilledAt(SelectSeq(enriched, LAMBDA order : order.fulfilled))]

ListAdminOrders(tokenSet) ==
    \E token \in tokenSet :
      \E auth \in {ownerRequired(authRequired(token))} :
        /\ last' = IF auth.status # 200
                   THEN Response("listAdminOrders", <<>>, auth.status, auth.error, Null)
                   ELSE Response("listAdminOrders", <<>>, 200, "",
                                 Some(adminOrdersBody([i \in 1..Len(orders) |-> enrichedOrder(orders[i])])))
        /\ cookie' = token
        /\ sessions' = auth.sessions
        /\ UNCHANGED << disk, mail, env, users, merchExists, merchItems, uploads, orders, clock, tokens,
                        userIds, orderIds, itemIds, placedOk, firstFulfill >>

ListOrders(tokenSet) ==
    \E token \in tokenSet :
      \E auth \in {ownerRequired(authRequired(token))} :
        /\ last' = IF auth.status # 200
                   THEN Response("listOrders", <<>>, auth.status, auth.error, Null)
                   ELSE Response("listOrders", <<>>, 200, "",
                                 Some(byCreatedAt([i \in 1..Len(orders) |-> enrichedOrder(orders[i])])))
        /\ cookie' = token
        /\ sessions' = auth.sessions
        /\ UNCHANGED << disk, mail, env, users, merchExists, merchItems, uploads, orders, clock, tokens,
                        userIds, orderIds, itemIds, placedOk, firstFulfill >>

-----------------------------------------------------------------------------
(* ensureDataFile, readJsonArray, writeJsonArray: the storage layer on its *)
(* own, over files an operator can remove or damage while the process runs *)

DataFiles == { "users.json", "orders.json", "merch-items.json" }

\* what a path of the data directory holds: nothing, a JSON array, JSON that is no
\* array, or text that is no JSON
Missing == [kind |-> "missing", rows |-> << >>]
StoredArray(rows) == [kind |-> "array", rows |-> rows]
StoredObject == [kind |-> "object", rows |-> << >>]
StoredGarbage == [kind |-> "garbage", rows |-> << >>]

\* what a call of the storage layer came to: the value returned, or an exception
Returned(fn, file, value) == [fn |-> fn, file |-> file, threw |-> FALSE, value |-> value]
Threw(fn, file) == [fn |-> fn, file |-> file, threw |-> TRUE, value |-> << >>]
NoCall == [fn |-> "none", file |-> "", threw |-> FALSE, value |-> << >>]

\* a data directory without files, in a process that has read nothing yet
NewDisk == [files |-> [file \in DataFiles |-> Missing], ensured |-> {}, call |-> NoCall]

\* ensureDataFile: the disk after it; a path in ensuredDataFiles is not looked at again
ensureDataFile(file) ==
    IF file \in disk.ensured THEN disk
    ELSE [disk EXCEPT !.files[file] = IF @.kind = "missing" THEN StoredArray(<< >>) ELSE @,
                      !.ensured = @ \cup {file}]

\* readJsonArray from fs.readFileSync on: readFileSync is outside the try and throws
\* for a missing file; what JSON.parse rejects, and what is no array, reads as []
readFileAsArray(file, content) ==
    IF content.kind = "missing" THEN Threw("read", file)
    ELSE IF content.kind = "array" THEN Returned("read", file, content.rows)
    ELSE Returned("read", file, << >>)

ReadJsonArray ==
    \E file \in DataFiles :
      \E ensured \in {ensureDataFile(file)} :
        /\ disk' = [ensured EXCEPT !.call = readFileAsArray(file, ensured.files[file])]
        /\ UNCHANGED << mail, env, users, sessions, merchExists, merchItems, uploads, orders, clock,
                        tokens, userIds, orderIds, itemIds, last, cookie, placedOk, firstFulfill >>

\* writeJsonArray, which every handler calls after readJsonArray of the same path
WriteJsonArray(rowsSet) ==
    \E file \in DataFiles, rows \in rowsSet :
      /\ file \in disk.ensured
      /\ disk' = [disk EXCEPT !.files[file] = StoredArray(rows),
                              !.call = Returned("write", file, << >>)]
      /\ UNCHANGED << mail, env, users, sessions, merchExists, merchItems, uploads, orders, clock,
                      tokens, userIds, orderIds, itemIds, last, cookie, placedOk, firstFulfill >>

\* a file of the data directory is removed while the process runs
FileRemoved ==
    \E file \in DataFiles :
      /\ disk.files[file].kind # "missing"
      /\ disk' = [disk EXCEPT !.files[file] = Missing, !.call = NoCall]
      /\ UNCHANGED << mail, env, users, sessions, merchExists, merchItems, uploads, orders, clock,
                      tokens, userIds, orderIds, itemIds, last, cookie, placedOk, firstFulfill >>

\* a file of the data directory is overwritten with something that is no JSON array
FileDamaged ==
    \E file \in DataFiles, content \in {StoredObject, StoredGarbage} :
      /\ disk.files[file].kind = "array"
      /\ disk' = [disk EXCEPT !.files[file] = content, !.call = NoCall]
      /\ UNCHANGED << mail, env, users, sessions, merchExists, merchItems, uploads, orders, clock,
                      tokens, userIds, orderIds, itemIds, last, cookie, placedOk, firstFulfill >>

-----------------------------------------------------------------------------
(* The process and its data directory.                                     *)

\* a session table that is saved and read back when the process starts
sessionsPersisted == sessions

\* const sessions = new Map(): the table a starting process has
sessionsAtStart == << >>

\* const ensuredDataFiles = new Set()
ensuredAtStart == {}

\* the notifications a new process knows of: those still under way are lost with the
\* event loop of the old one, what was logged stays logged
mailAtStart == SelectSeq(mail, LAMBDA job : job.pc = "done")

\* the process is stopped and started again: its memory is lost, the data directory is kept
Restart ==
    /\ sessions' = sessionsAtStart
    /\ mail' = mailAtStart
    /\ disk' = [disk EXCEPT !.ensured = ensuredAtStart]
    /\ last' = NoRequest
    /\ cookie' = 0
    /\ UNCHANGED << env, users, merchExists, merchItems, uploads, orders, clock, tokens,
                    userIds, orderIds, itemIds, placedOk, firstFulfill >>

\* users.json is edited by hand while the process runs: a record is removed
UserRemoved ==
    \E index \in DOMAIN users :
      /\ users' = RemoveAt(users, index)
      /\ UNCHANGED << disk, mail, env, sessions, merchExists, merchItems, uploads, orders, clock, tokens,
                      userIds, orderIds, itemIds, last, cookie, placedOk, firstFulfill >>

\* the email as a hand-written record may hold it: upper case, surrounded by blanks
HandWritten(email) == << " " >> \o toUpperCase(email) \o << " " >>

\* users.json is edited by hand: a record as the handlers wrote it loses its approval
\* and has its email retyped
UserEdited ==
    \E index \in DOMAIN users :
      \E edited \in { [users[index] EXCEPT !.approved = FALSE, !.approvedBy = Null,
                                           !.email = HandWritten(users[index].email)] } :
        /\ users[index].email = StoredEmailKey(users[index])
        /\ users' = [users EXCEPT ![index] = edited]
        /\ UNCHANGED << disk, mail, env, sessions, merchExists, merchItems, uploads, orders, clock, tokens,
                        userIds, orderIds, itemIds, last, cookie, placedOk, firstFulfill >>

-----------------------------------------------------------------------------
(* The Google-approval revision (src/server.js, first revision): the       *)
(* handlers that write users.json.  /api/auth/google awaits the token      *)
(* verification before it reads anything, and runs to completion from     *)
(* there; request-approval awaits the notification only after it has      *)
(* written.  Each is one action, taken when the handler resumes.          *)

\* sessions.set(token, { userId, createdAt }) of that revision
createApprovalSession(table, token, userId) ==
    [t \in DOMAIN table \cup {token} |-> IF t = token THEN [userId |-> userId] ELSE table[t]]

\* getUserFromRequest: Null, or the freshly read user of the token
getUserFromRequest(token) ==
    IF token \notin DOMAIN sessions THEN Null
    ELSE LET index == First({i \in 1..Len(users) : users[i].id = sessions[token].userId})
         IN  IF index = 0 THEN Null ELSE Some(users[index])

\* user.googleSub, null for a record that has none
googleSubOf(user) == IF "googleSub" \in DOMAIN user THEN user.googleSub ELSE Null

\* the record with the given provider and googleSub
asGoogleUser(user, googleSub) ==
    [f \in DOMAIN user \cup {"googleSub"} |->
        IF f = "googleSub" THEN googleSub
        ELSE IF f = "provider" THEN "google"
        ELSE user[f]]

\* the owner record /api/auth/google creates on the owner's first sign-in
newOwnerUser(email, googleName, sub) ==
    LET ownerProfile == profileSuggestion(googleName)
        initials == normalizeInitials(JsString(ownerProfile.initials))
        name == fullName(ownerProfile.firstName, ownerProfile.lastName)
    IN  [ id |-> randomUUID("u", userIds),
          email |-> email,
          provider |-> "google",
          googleSub |-> IF sub # <<>> THEN Some(sub) ELSE Null,
          firstName |-> IF ownerProfile.firstName # <<>> THEN ownerProfile.firstName
                        ELSE << "O","w","n","e","r" >>,
          lastName |-> ownerProfile.lastName,
          initials |-> IF ~IsNull(initials) THEN Val(initials) ELSE << "O" >>,
          name |-> IF name # <<>> THEN name
                   ELSE IF googleName # <<>> THEN googleName
                   ELSE << "O","w","n","e","r" >>,
          approved |-> TRUE,
          approvedBy |-> Null ]

\* a sign-in that approves whoever signs in
googleSignedInApproved(user, googleName, sub) ==
    asGoogleUser([user EXCEPT !.approved = TRUE], googleSubOf(user))

\* the record as a sign-in leaves it: provider, googleSub, profile and owner approval
\* (approvedBy is not touched: the owner is approved before the block that would set it)
googleSignedInUser(user, googleName, sub) ==
    LET withSub == asGoogleUser(user, IF sub # <<>> THEN Some(sub) ELSE googleSubOf(user))
        withApproval == IF isOwnerUser(withSub) THEN [withSub EXCEPT !.approved = TRUE] ELSE withSub
        withProfile == IF profileIsComplete(withApproval) THEN withApproval
                       ELSE completedProfile(withApproval,
                                profileSuggestion(IF withApproval.name # <<>> THEN withApproval.name
                                                  ELSE googleName))
    IN  withProfile

\* the handler from the point where the verified payload is at hand
googleSignInOf(payload) ==
    LET email == normalizeEmail(payload.email)
        googleName == trim(IF ToStringOrEmpty(payload.name) # <<>> THEN payload.name.v
                           ELSE << "C","l","u","b"," ","M","e","m","b","e","r" >>)
        sub == trim(ToStringOrEmpty(payload.sub))
    IN  IF IsNull(email) \/ ~Truthy(payload.email_verified)
        THEN [status |-> 400, error |-> "Google account email is not verified",
              users |-> users, user |-> Null]
        ELSE LET found == First({i \in 1..Len(users) : StoredEmailKey(users[i]) = Val(email)})
                 known == IF found = 0 /\ Val(email) = OWNER_EMAIL
                          THEN Append(users, newOwnerUser(Val(email), googleName, sub))
                          ELSE users
                 index == IF found = 0 /\ Val(email) = OWNER_EMAIL THEN Len(known) ELSE found
             IN  IF index = 0
                 THEN [status |-> 403, error |-> "This email is not approved yet",
                       users |-> users, user |-> Null]
                 ELSE LET user == googleSignedInUser(known[index], googleName, sub)
                          written == [known EXCEPT ![index] = user]
                      IN  IF ~isOwnerUser(user) /\ ~user.approved
                          THEN [status |-> 403, error |-> "Your account is pending approval",
                                users |-> written, user |-> Null]
                          ELSE [status |-> 200, error |-> "", users |-> written, user |-> Some(user)]

\* what /api/auth/google answers; ticket is what verifyIdToken resolved to, Null when it threw
googleSignInResponse(body) ==
    IF ~Truthy(body.credential)
    THEN [status |-> 400, error |-> "Missing Google credential token", users |-> users, user |-> Null]
    ELSE IF IsNull(env.GOOGLE_CLIENT_ID)
    THEN [status |-> 503, error |-> "Google login is not configured yet", users |-> users, user |-> Null]
    ELSE IF IsNull(body.ticket)
    THEN [status |-> 401, error |-> "Google token verification failed", users |-> users, user |-> Null]
    ELSE googleSignInOf(Val(body.ticket))

GoogleSignIn(bodies) ==
    \E body \in bodies :
      \E response \in {googleSignInResponse(body)} :
        /\ tokens < MaxSessions
        /\ users' = response.users
        /\ userIds' = userIds + (Len(response.users) - Len(users))
        /\ sessions' = IF response.status = 200
                       THEN createApprovalSession(sessions, tokens + 1, Val(response.user).id)
                       ELSE sessions
        /\ tokens' = IF response.status = 200 THEN tokens + 1 ELSE tokens
        /\ last' = Response("google", body, response.status, response.error, response.user)
        /\ cookie' = 0
        /\ UNCHANGED << disk, mail, env, merchExists, merchItems, uploads, orders, clock, orderIds, itemIds,
                        placedOk, firstFulfill >>

\* createOrUpdateApprovalRequest: the users file it writes; found is the index of the
\* record with the email, 0 when there is none
approvalRequestOf(email, firstName, lastName, initials, found) ==
    LET built == normalizeInitials(JsString(buildInitials(firstName, lastName)))
        normalizedInitials == IF ~IsNull(initials) THEN Val(initials)
                              ELSE IF ~IsNull(built) THEN Val(built)
                              ELSE << "D","C" >>
        computedName == fullName(firstName, lastName)
    IN  IF found = 0
        THEN Append(users, [ id |-> randomUUID("u", userIds),
                             email |-> email,
                             provider |-> "google",
                             googleSub |-> Null,
                             firstName |-> firstName,
                             lastName |-> lastName,
                             initials |-> normalizedInitials,
                             name |-> IF computedName # <<>> THEN computedName ELSE email,
                             approved |-> FALSE,
                             approvedBy |-> Null ])
        ELSE LET user == asGoogleUser(users[found], googleSubOf(users[found]))
             IN  [users EXCEPT ![found] =
                    [user EXCEPT !.firstName = firstName,
                                 !.lastName = lastName,
                                 !.initials = normalizedInitials,
                                 !.name = IF computedName # <<>> THEN computedName
                                          ELSE IF user.name # <<>> THEN user.name
                                          ELSE email,
                                 !.approvedBy = IF ~user.approved THEN Null
                                                ELSE IF IsNull(user.approvedBy) THEN Some(OWNER_EMAIL)
                                                ELSE user.approvedBy]]

createOrUpdateApprovalRequest(email, firstName, lastName, initials) ==
    approvalRequestOf(email, firstName, lastName, initials,
                      First({i \in 1..Len(users) : StoredEmailKey(users[i]) = email}))

\* what /api/auth/request-approval answers and the users file it leaves
requestApprovalResponse(body) ==
    LET normalizedEmail == normalizeEmail(body.email)
        normalizedFirstName == trim(ToStringOrEmpty(body.firstName))
        normalizedLastName == trim(ToStringOrEmpty(body.lastName))
        normalizedInitials == normalizeInitials(body.initials)
    IN  IF \/ IsNull(normalizedEmail) \/ normalizedFirstName = <<>>
           \/ normalizedLastName = <<>> \/ IsNull(normalizedInitials)
        THEN [status |-> 400, error |-> "email, firstName, lastName, and initials are required",
              users |-> users]
        ELSE IF Val(normalizedEmail) = OWNER_EMAIL
        THEN [status |-> 400, error |-> "Owner email does not need approval", users |-> users]
        ELSE [status |-> 200, error |-> "",
              users |-> createOrUpdateApprovalRequest(Val(normalizedEmail), normalizedFirstName,
                                                      normalizedLastName, normalizedInitials)]

RequestApproval(bodies) ==
    \E body \in bodies :
      \E response \in {requestApprovalResponse(body)} :
        /\ users' = response.users
        /\ userIds' = userIds + (Len(response.users) - Len(users))
        /\ last' = Response("requestApproval", body, response.status, response.error, Null)
        /\ cookie' = 0
        /\ UNCHANGED << disk, mail, env, sessions, merchExists, merchItems, uploads, orders, clock, tokens,
                        orderIds, itemIds, placedOk, firstFulfill >>

\* what /api/admin/users/:userId/approve answers and the users file it leaves
approveUserResponse(owner, param) ==
    LET userId == trim(param)
        userIndex == First({i \in 1..Len(users) : users[i].id = userId})
    IN  IF userId = <<>>
        THEN [response |-> Response("approve", param, 400, "userId is required", Null), users |-> users]
        ELSE IF userIndex = 0
        THEN [response |-> Response("approve", param, 404, "User not found", Null), users |-> users]
        ELSE IF isOwnerUser(users[userIndex])
        THEN [response |-> Response("approve", param, 400, "Owner account does not require approval",
                                    Null),
              users |-> users]
        ELSE LET updatedUser == [users[userIndex] EXCEPT !.approved = TRUE,
                                                         !.approvedBy = Some(owner.email)]
             IN  [response |-> Response("approve", param, 200, "", Some(updatedUser)),
                  users |-> [users EXCEPT ![userIndex] = updatedUser]]

ApproveUser(tokenSet, params) ==
    \E token \in tokenSet, param \in params :
      \E user \in {getUserFromRequest(token)} :
        \E result \in {IF IsNull(user)
                       THEN [response |-> Response("approve", param, 401, "Not signed in", Null),
                             users |-> users]
                       ELSE IF ~isOwnerUser(Val(user))
                       THEN [response |-> Response("approve", param, 403, "Owner access only", Null),
                             users |-> users]
                       ELSE approveUserResponse(Val(user), param)} :
          /\ last' = result.response
          /\ cookie' = token
          /\ sessions' = SessionsAfterAuth(token, user)
          /\ users' = result.users
          /\ UNCHANGED << disk, mail, env, merchExists, merchItems, uploads, orders, clock, tokens, userIds,
                          orderIds, itemIds, placedOk, firstFulfill >>

\* The password revision (src/server.js, second revision): its register handler, which
\* leaves accounts with a name and no first name, last name or initials.

\* the password is long enough: String(password).length >= 8
MinPasswordLength == 8

\* the record the handler stores; the fields it does not write read as blank in the
\* other revisions, and its password record, which no other revision reads, is left out
passwordUser(email, name) ==
    [ id |-> randomUUID("u", userIds),
      email |-> email,
      provider |-> "",
      firstName |-> << >>,
      lastName |-> << >>,
      initials |-> << >>,
      name |-> trim(name),
      approved |-> FALSE,
      approvedBy |-> Null ]

\* what the handler answers, and the users file and the user signed in when it succeeds
passwordRegisterResponse(body) ==
    LET normalizedEmail == toLowerCase(trim(ToStringOrEmpty(body.email))) IN
    IF ~Truthy(body.name) \/ ~Truthy(body.email) \/ ~Truthy(body.password)
    THEN [status |-> 400, error |-> "Name, email, and password are required", users |-> users, user |-> Null]
    ELSE IF ~EmailShape(normalizedEmail)
    THEN [status |-> 400, error |-> "Please enter a valid email address", users |-> users, user |-> Null]
    ELSE IF Len(ToStringOrEmpty(body.password)) < MinPasswordLength
    THEN [status |-> 400, error |-> "Password must be at least 8 characters", users |-> users, user |-> Null]
    ELSE IF \E i \in DOMAIN users : users[i].email = normalizedEmail
    THEN [status |-> 409, error |-> "An account with that email already exists",
          users |-> users, user |-> Null]
    ELSE LET user == passwordUser(normalizedEmail, ToStringOrEmpty(body.name))
         IN  [status |-> 200, error |-> "", users |-> Append(users, user), user |-> Some(user)]

PasswordRegister(bodies) ==
    \E body \in bodies :
      \E response \in {passwordRegisterResponse(body)} :
        /\ tokens < MaxSessions
        /\ users' = response.users
        /\ userIds' = userIds + (Len(response.users) - Len(users))
        /\ sessions' = IF response.status = 200
                       THEN createApprovalSession(sessions, tokens + 1, Val(response.user).id)
                       ELSE sessions
        /\ tokens' = IF response.status = 200 THEN tokens + 1 ELSE tokens
        /\ last' = Response("passwordRegister", body, response.status, response.error, response.user)
        /\ cookie' = 0
        /\ UNCHANGED << disk, mail, env, merchExists, merchItems, uploads, orders, clock, orderIds, itemIds,
                        placedOk, firstFulfill >>

\* another revision is deployed on the same data directory: a new process, the files kept
Deploy ==
    /\ env' = [env EXCEPT !.revision = IF env.revision = "latest" THEN "approval" ELSE "latest"]
    /\ sessions' = sessionsAtStart
    /\ mail' = mailAtStart
    /\ disk' = [disk EXCEPT !.ensured = ensuredAtStart]
    /\ last' = NoRequest
    /\ cookie' = 0
    /\ UNCHANGED << users, merchExists, merchItems, uploads, orders, clock, tokens, userIds,
                    orderIds, itemIds, placedOk, firstFulfill >>

\* merch-items.json is edited by hand: an item without sizes is given a 2XL price
MerchFileEdited ==
    \E index \in DOMAIN merchItems :
      /\ merchItems[index].sizes = <<>>
      /\ IsNull(merchItems[index].twoXlPrice)
      /\ merchItems' = [merchItems EXCEPT ![index].twoXlPrice = Some(Units(30))]
      /\ last' = NoRequest
      /\ UNCHANGED << disk, mail, env, users, sessions, merchExists, uploads, orders, clock, tokens, userIds,
                      orderIds, itemIds, cookie, placedOk, firstFulfill >>

\* orders.json is edited by hand: an open order is marked fulfilled, without a time
OrdersFileEdited ==
    \E index \in DOMAIN orders :
      /\ ~orders[index].fulfilled
      /\ orders' = [orders EXCEPT ![index].fulfilled = TRUE]
      /\ last' = NoRequest
      /\ UNCHANGED << disk, mail, env, users, sessions, merchExists, merchItems, uploads, clock, tokens,
                      userIds, orderIds, itemIds, cookie, placedOk, firstFulfill >>

-----------------------------------------------------------------------------
(* maybeSendOrderEmail, run from the setImmediate callback of POST /api/orders *)

\* !value of an environment variable: unset or empty
Unset(value) == IsNull(value) \/ Val(value) = <<>>

\* a process that never has a transport
transportNeverBuilt == Null

\* buildTransport(): null unless SMTP_HOST, SMTP_USER and SMTP_PASS are set
\* (OWNER_EMAIL is a non-empty constant)
buildTransport ==
    IF Unset(env.SMTP_HOST) \/ Unset(env.SMTP_USER) \/ Unset(env.SMTP_PASS) \/ OWNER_EMAIL = <<>>
    THEN Null
    ELSE Some([host |-> Val(env.SMTP_HOST), user |-> Val(env.SMTP_USER)])

\* the notification once the promise of maybeSendOrderEmail has settled: its status
\* object, and the console.error line of the callback when emailed is false
settled(job, emailed, reason) ==
    [job EXCEPT !.pc = "done",
                !.result = Some([emailed |-> emailed, reason |-> reason]),
                !.trace = IF emailed THEN @ ELSE Append(@, "logged")]

\* transport.sendMail(mailOptions) is called for the next attempt
sending(job) ==
    [job EXCEPT !.pc = "sending", !.attempt = @ + 1, !.trace = Append(@, "attempt")]

\* the attempts the loop makes: for (let attempt = 1; attempt <= 2; attempt += 1)
Attempts == 2

\* a catch block that always goes round again
afterFailureRetrying(job, error) == [job EXCEPT !.pc = "waiting", !.lastError = Some(error)]

\* the catch block of the loop: waits before the next attempt, or leaves the loop
afterFailure(job, error) ==
    IF job.attempt < Attempts
    THEN [job EXCEPT !.pc = "waiting", !.lastError = Some(error)]
    ELSE settled([job EXCEPT !.lastError = Some(error)], FALSE, "Owner notification unavailable")

\* the setImmediate callback runs: maybeSendOrderEmail up to its first await
NotifyRun ==
    \E n \in DOMAIN mail :
      /\ mail[n].pc = "scheduled"
      /\ mail' = [mail EXCEPT ![n] = IF IsNull(buildTransport)
                                     THEN settled(@, FALSE, "Email not configured")
                                     ELSE sending(@)]
      /\ last' = NoRequest
      /\ UNCHANGED << disk, env, users, sessions, merchExists, merchItems, uploads, orders, clock, tokens,
                      userIds, orderIds, itemIds, cookie, placedOk, firstFulfill >>

\* sendMail settles: the mail was accepted, or the call was rejected or threw
SendSettled ==
    \E n \in DOMAIN mail, outcome \in {"sent", "rejected", "thrown"} :
      /\ mail[n].pc = "sending"
      /\ \E job \in {[mail[n] EXCEPT !.trace = Append(@, outcome)]} :
            mail' = [mail EXCEPT ![n] = IF outcome = "sent"
                                        THEN settled(job, TRUE, "")
                                        ELSE afterFailure(job, outcome)]
      /\ last' = NoRequest
      /\ UNCHANGED << disk, env, users, sessions, merchExists, merchItems, uploads, orders, clock, tokens,
                      userIds, orderIds, itemIds, cookie, placedOk, firstFulfill >>

\* the timer of wait(500) fires and the loop goes round
WaitElapsed ==
    \E n \in DOMAIN mail :
      /\ mail[n].pc = "waiting"
      /\ mail' = [mail EXCEPT ![n] = sending(@)]
      /\ last' = NoRequest
      /\ UNCHANGED << disk, env, users, sessions, merchExists, merchItems, uploads, orders, clock, tokens,
                      userIds, orderIds, itemIds, cookie, placedOk, firstFulfill >>

-----------------------------------------------------------------------------
(* Time.                                                                   *)

Tick ==
    /\ clock < MaxClock
    /\ clock' = clock + 1
    /\ UNCHANGED << disk, mail, env, itemIds, users, sessions, merchExists, merchItems, uploads, orders, tokens,
                    userIds, orderIds, last, cookie, placedOk, firstFulfill >>

-----------------------------------------------------------------------------
(* Requests the clients send.                                              *)

\* the cookie of a request: a token issued so far, or 0 for no session cookie
TokenInputs == 0..MaxSessions

MemberEmail == << "a","@","b",".","c" >>
TorchHat == << "t","o","r","c","h","-","h","a","t" >>
Ghost == << "g","h","o","s","t" >>

RegisterBody(email, firstName, lastName, initials) ==
    [email |-> email, firstName |-> firstName, lastName |-> lastName, initials |-> initials]

OwnerRegistration ==
    RegisterBody(JsString(OWNER_EMAIL), JsString(<<"R","o">>), JsString(<<"L","i">>), JsString(<<"R","L">>))

MemberRegistration ==
    RegisterBody(JsString(MemberEmail), JsString(<<"A","l">>), JsString(<<"B","o">>), JsString(<<"a","b">>))

RegisterBodies == { OwnerRegistration, MemberRegistration }

OrderBody(itemId, quantity, venmoAgreed, selectedSize, includeInitials) ==
    [itemId |-> itemId, quantity |-> quantity, venmoAgreed |-> venmoAgreed,
     selectedSize |-> selectedSize, includeInitials |-> includeInitials]

BaseOrder == OrderBody(JsString(TorchHat), JsNumber(Units(2)), JsBool(TRUE), JsUndefined, JsUndefined)

\* the requests of the order-lifecycle specification
LifecycleBodies == { BaseOrder }

QuantityInputs ==
    { JsUndefined, JsString(<<"a","b","c">>), JsString(<<"3">>), JsNumber(0), JsNumber(Units(1)),
      JsNumber(1002), JsNumber(2500), JsNumber(Units(50)), JsNumber(Units(50) + 1), JsNumber(Units(51)) }

VenmoInputs ==
    { JsUndefined, JsNull, JsBool(FALSE), JsString(<<"f","a","l","s","e">>), JsNumber(Units(1)) }

SizeInputs ==
    { JsString(<<"x","l">>), JsString(<<" ","2","X","L"," ">>), JsString(<<"2","X","L">>),
      JsString(<<"X","X","L">>), JsString(<<" ">>) }

InitialsInputs == { JsBool(TRUE), JsBool(FALSE), JsString(<<"n","o">>) }

\* the requests of the placement specification: the base request with one field varied
PlaceBodies ==
    {BaseOrder}
    \cup { [BaseOrder EXCEPT !.quantity = q] : q \in QuantityInputs }
    \cup { [BaseOrder EXCEPT !.venmoAgreed = v] : v \in VenmoInputs }
    \cup { [BaseOrder EXCEPT !.selectedSize = z] : z \in SizeInputs }
    \cup { [BaseOrder EXCEPT !.includeInitials = i] : i \in InitialsInputs }
    \cup { [BaseOrder EXCEPT !.itemId = x] : x \in {JsString(Ghost), JsUndefined} }
    \cup { [BaseOrder EXCEPT !.selectedSize = JsString(<<"2","X","L">>), !.quantity = JsNumber(1002)] }

PausePatches ==
    { Patch(Absent, Absent, JsBool(TRUE), Absent), Patch(Absent, Absent, JsBool(FALSE), Absent) }

FlagPatches ==
    PausePatches
    \cup { Patch(JsBool(b), Absent, Absent, Absent) : b \in BOOLEAN }
    \cup { Patch(Absent, JsBool(b), Absent, Absent) : b \in BOOLEAN }
    \cup { Patch(Absent, Absent, Absent, p) : p \in {JsNull, JsNumber(28004), JsNumber(0)} }
    \cup { Patch(Absent, Absent, Absent, Absent) }

ItemParams == { TorchHat }

OrderParams == { randomUUID("o", n) : n \in 0..MaxOrders }

-----------------------------------------------------------------------------
(* Specifications.                                                         *)

Init ==
    /\ users = <<>>
    /\ sessions = <<>>
    /\ merchExists = FALSE
    /\ merchItems = <<>>
    /\ uploads = {}
    /\ orders = <<>>
    /\ clock = 1
    /\ tokens = 0
    /\ userIds = 0
    /\ orderIds = 0
    /\ itemIds = 0
    /\ env = ShippedEnv
    /\ last = NoRequest
    /\ cookie = 0
    /\ mail = <<>>
    /\ disk = NewDisk
    /\ placedOk = 0
    /\ firstFulfill = <<>>

\* the order lifecycle: orders placed and fulfilled over time while the catalog changes
Next ==
    \/ Tick
    \/ Register(RegisterBodies)
    \/ PlaceOrder(TokenInputs, LifecycleBodies, MaxOrders)
    \/ FulfillOrder(TokenInputs, OrderParams)
    \/ UpdateItem(TokenInputs, ItemParams, PausePatches)
    \/ DeleteItem(TokenInputs, ItemParams)

Spec == Init /\ [][Next]_vars

\* one placement: the requests a client can send against the catalogs the owner can set up
NextPlace ==
    \/ Register({OwnerRegistration})
    \/ PlaceOrder(TokenInputs, PlaceBodies, MaxPlaced)
    \/ FulfillOrder(TokenInputs, OrderParams)
    \/ UpdateItem(TokenInputs, ItemParams, FlagPatches)
    \/ DeleteItem(TokenInputs, ItemParams)

SpecPlace == Init /\ [][NextPlace]_vars

\* the configurations a deployment can run with: the gate as the source ships it
\* or switched on, with or without LOGIN_PASSWORD in the environment
Environments ==
    { ShippedEnv }
    \cup [PASSWORD_GATE_ENABLED : {TRUE}, LOGIN_PASSWORD : {Null, Some(<< "p","w"," " >>)}]

LoginBody(email) == [email |-> email]

LoginBodies ==
    { LoginBody(JsString(HandWritten(OWNER_EMAIL))), LoginBody(JsString(MemberEmail)),
      LoginBody(JsString(<< "x","@","y",".","z" >>)), LoginBody(JsUndefined) }

PasswordBody(password) == [password |-> password]

PasswordBodies ==
    { PasswordBody(JsUndefined), PasswordBody(JsString(<<>>)), PasswordBody(JsString(<< "p","w" >>)),
      PasswordBody(JsString(<< "p","w"," " >>)) }

ItemBody(name, price, imageDataUrl, includeSizes, allowInitials, twoXlPrice) ==
    [name |-> name, price |-> price, imageDataUrl |-> imageDataUrl, includeSizes |-> includeSizes,
     allowInitials |-> allowInitials, twoXlPrice |-> twoXlPrice]

PngUpload == JsString(DataUrlPrefix \o << "A","A","=","=" >>)

BaseItem ==
    ItemBody(JsString(<< "T","e","e" >>), JsNumber(Units(20)), PngUpload, JsUndefined, JsUndefined,
             JsUndefined)

InitAuth ==
    /\ users = <<>>
    /\ sessions = <<>>
    /\ merchExists = FALSE
    /\ merchItems = <<>>
    /\ uploads = {}
    /\ orders = <<>>
    /\ clock = 1
    /\ tokens = 0
    /\ userIds = 0
    /\ orderIds = 0
    /\ itemIds = 0
    /\ env \in Environments
    /\ last = NoRequest
    /\ cookie = 0
    /\ mail = <<>>
    /\ disk = NewDisk
    /\ placedOk = 0
    /\ firstFulfill = <<>>

\* sessions: sign-up, sign-in, the password gate, sign-out, restarts and hand edits of
\* users.json, observed through the endpoints that read without writing
NextAuth ==
    \/ Register(RegisterBodies)
    \/ Login(LoginBodies)
    \/ VerifyPassword(TokenInputs, PasswordBodies)
    \/ Logout(TokenInputs)
    \/ GetMe(TokenInputs)
    \/ ListMerch(TokenInputs)
    \/ ListAdminMerch(TokenInputs)
    \/ ListOrders(TokenInputs)
    \/ UserRemoved
    \/ UserEdited
    \/ Restart

SpecAuth == InitAuth /\ [][NextAuth]_vars

\* the gate as the source ships it, and switched on with a secret configured
GateEnvironments ==
    { ShippedEnv, [PASSWORD_GATE_ENABLED |-> TRUE, LOGIN_PASSWORD |-> Some(<< "p","w"," " >>)] }

InitAccess ==
    /\ users = <<>>
    /\ sessions = <<>>
    /\ merchExists = FALSE
    /\ merchItems = <<>>
    /\ uploads = {}
    /\ orders = <<>>
    /\ clock = 1
    /\ tokens = 0
    /\ userIds = 0
    /\ orderIds = 0
    /\ itemIds = 0
    /\ env \in GateEnvironments
    /\ last = NoRequest
    /\ cookie = 0
    /\ mail = <<>>
    /\ disk = NewDisk
    /\ placedOk = 0
    /\ firstFulfill = <<>>

\* access control: every endpoint behind authRequired, called by the owner, by a member,
\* and without a session, before and after the password gate and across restarts
NextAccess ==
    \/ Register(RegisterBodies)
    \/ VerifyPassword(TokenInputs, {PasswordBody(JsString(<< "p","w" >>))})
    \/ ListMerch(TokenInputs)
    \/ ListAdminMerch(TokenInputs)
    \/ ListAdminOrders(TokenInputs)
    \/ ListOrders(TokenInputs)
    \/ CreateItem(TokenInputs, {BaseItem}, MaxItems)
    \/ UpdateItem(TokenInputs, ItemParams, {Patch(Absent, Absent, JsBool(TRUE), Absent)})
    \/ DeleteItem(TokenInputs, ItemParams)
    \/ PlaceOrder(TokenInputs, LifecycleBodies, MaxPlaced)
    \/ FulfillOrder(TokenInputs, {randomUUID("o", 0)})
    \/ Restart

SpecAccess == InitAccess /\ [][NextAccess]_vars

GooglePayload(email, name, verified, sub) ==
    [email |-> email, name |-> name, email_verified |-> verified, sub |-> sub]

GoogleBody(credential, ticket) == [credential |-> credential, ticket |-> ticket]

GoogleBodies ==
    { GoogleBody(JsUndefined, Null),
      GoogleBody(JsString(<< "x" >>), Null),
      GoogleBody(JsString(<< "o" >>),
                 Some(GooglePayload(JsString(toUpperCase(OWNER_EMAIL)), JsString(<< "R","o"," ","L","i" >>),
                                    JsBool(TRUE), JsString(<< "g" >>)))),
      GoogleBody(JsString(<< "m" >>),
                 Some(GooglePayload(JsString(MemberEmail), JsUndefined, JsBool(TRUE), JsUndefined))),
      GoogleBody(JsString(<< "u" >>),
                 Some(GooglePayload(JsString(MemberEmail), JsUndefined, JsBool(FALSE), JsUndefined))) }

ApprovalBodies ==
    { RegisterBody(JsString(HandWritten(MemberEmail)), JsString(<<"A","l">>), JsString(<<"B","o">>),
                   JsString(<<"a","b">>)),
      RegisterBody(JsString(OWNER_EMAIL), JsString(<<"R","o">>), JsString(<<"L","i">>),
                   JsString(<<"R","L">>)),
      RegisterBody(JsString(MemberEmail), JsString(<<"A","l">>), JsUndefined, JsUndefined) }

UserParams == { randomUUID("u", n) : n \in 0..1 }

\* the configurations of the two revisions: GOOGLE_CLIENT_ID set or not
IdentityEnvironments ==
    { [PASSWORD_GATE_ENABLED |-> PASSWORD_GATE_ENABLED, LOGIN_PASSWORD |-> Null,
       GOOGLE_CLIENT_ID |-> id, revision |-> "approval"] : id \in {Null, Some(<< "i","d" >>)} }

InitIdentity ==
    /\ users = <<>>
    /\ sessions = <<>>
    /\ merchExists = FALSE
    /\ merchItems = <<>>
    /\ uploads = {}
    /\ orders = <<>>
    /\ clock = 1
    /\ tokens = 0
    /\ userIds = 0
    /\ orderIds = 0
    /\ itemIds = 0
    /\ env \in IdentityEnvironments
    /\ last = NoRequest
    /\ cookie = 0
    /\ mail = <<>>
    /\ disk = NewDisk
    /\ placedOk = 0
    /\ firstFulfill = <<>>

\* sign-ups for the member's email that supply some of the profile fields, or none
MergeBodies ==
    { RegisterBody(JsString(MemberEmail), JsString(<< " ","C","y" >>), JsUndefined, JsUndefined),
      RegisterBody(JsString(HandWritten(MemberEmail)), JsUndefined, JsString(<< "D","o" >>),
                   JsString(<< "c","d" >>)),
      RegisterBody(JsString(MemberEmail), JsUndefined, JsUndefined, JsString(<< "x","1" >>)) }

IdentityRegistrations == RegisterBodies \cup MergeBodies

\* users.json under the handlers that write it, in the Google-approval revision and in the
\* latest one, deployed one after the other on the same data directory
NextIdentity ==
    \/ env.revision = "approval" /\ GoogleSignIn(GoogleBodies)
    \/ env.revision = "approval" /\ RequestApproval(ApprovalBodies)
    \/ env.revision = "approval" /\ ApproveUser(TokenInputs, UserParams)
    \/ env.revision = "latest" /\ Register(IdentityRegistrations)
    \/ env.revision = "latest" /\ Login(LoginBodies)
    \/ UserEdited
    \/ Deploy

SpecIdentity == InitIdentity /\ [][NextIdentity]_vars

\* the product forms the owner can send: sizes on or off, with and without a 2XL price
CreateBodies ==
    { [BaseItem EXCEPT !.includeSizes = sizes, !.twoXlPrice = price] :
        sizes \in {JsUndefined, JsBool(TRUE)},
        price \in {JsUndefined, JsNumber(Units(28)), JsString(<< "a","b","c" >>)} }

\* the ids of the catalog: the seeded item and the items created at the start time
CatalogParams ==
    { TorchHat }
    \cup { << "i","t","e","m","-", UuidDigits[2], "-", UuidDigits[n + 1] >> : n \in 0..(MaxItems - 1) }

\* the edits of the sizes and of the 2XL price, alone and together
CatalogPatches ==
    { Patch(JsBool(b), Absent, Absent, Absent) : b \in BOOLEAN }
    \cup { Patch(Absent, Absent, Absent, p) : p \in {JsNull, JsNumber(28004), JsNumber(0)} }
    \cup { Patch(JsBool(b), Absent, Absent, JsNumber(Units(28))) : b \in BOOLEAN }

\* the catalog under the owner's create, update and delete requests and hand edits of its file
NextCatalog ==
    \/ Register({OwnerRegistration})
    \/ CreateItem(TokenInputs, CreateBodies, MaxItems)
    \/ UpdateItem(TokenInputs, CatalogParams, CatalogPatches)
    \/ DeleteItem(TokenInputs, CatalogParams)
    \/ ListAdminMerch(TokenInputs)
    \/ ListMerch(TokenInputs)
    \/ MerchFileEdited

SpecCatalog == Init /\ [][NextCatalog]_vars

\* the ids of the shop: the seeded item and the items the owner uploads
ShopParams ==
    { TorchHat }
    \cup { << "i","t","e","m","-", UuidDigits[2], "-", UuidDigits[n + 1] >> : n \in 0..(MaxUploads - 1) }

\* the shop window: the owner uploads, pauses, unpauses and deletes products while
\* the owner and a member look at the listings
NextShop ==
    \/ Register({OwnerRegistration, MemberRegistration})
    \/ CreateItem(TokenInputs, {BaseItem}, MaxUploads)
    \/ UpdateItem(TokenInputs, ShopParams, PausePatches)
    \/ DeleteItem(TokenInputs, ShopParams)
    \/ ListMerch(TokenInputs)
    \/ ListAdminMerch(TokenInputs)

SpecShop == Init /\ [][NextShop]_vars

\* the mail settings a deployment can run with: none, all of them, and a blank SMTP_USER
MailEnvironments ==
    { [PASSWORD_GATE_ENABLED |-> PASSWORD_GATE_ENABLED, LOGIN_PASSWORD |-> Null,
       SMTP_HOST |-> host, SMTP_USER |-> user, SMTP_PASS |-> host] :
        host \in {Null, Some(<< "h" >>)}, user \in {Some(<< "u" >>), Some(<< >>)} }

\* an order the catalog accepts, and one sent without the Venmo agreement
NotifyBodies == { BaseOrder, [BaseOrder EXCEPT !.venmoAgreed = JsBool(FALSE)] }

InitNotify ==
    /\ users = <<>>
    /\ sessions = <<>>
    /\ merchExists = FALSE
    /\ merchItems = <<>>
    /\ uploads = {}
    /\ orders = <<>>
    /\ clock = 1
    /\ tokens = 0
    /\ userIds = 0
    /\ orderIds = 0
    /\ itemIds = 0
    /\ env \in MailEnvironments
    /\ last = NoRequest
    /\ cookie = 0
    /\ mail = <<>>
    /\ disk = NewDisk
    /\ placedOk = 0
    /\ firstFulfill = <<>>

\* orders placed by a member while the notifications of earlier orders are under way
NextNotify ==
    \/ Register({MemberRegistration})
    \/ PlaceOrder(TokenInputs, NotifyBodies, MaxMailed)
    \/ NotifyRun
    \/ SendSettled
    \/ WaitElapsed

SpecNotify == InitNotify /\ [][NextNotify]_vars

\* the event loop runs every callback that is due: the setImmediate callback, the
\* continuation of a settled sendMail, the timer of wait(500)
FairNotify ==
    /\ SpecNotify
    /\ WF_vars(NotifyRun)
    /\ WF_vars(SendSettled)
    /\ WF_vars(WaitElapsed)

ListedParams == { randomUUID("o", n) : n \in 0..MaxListed }

\* the owner's order listing over orders placed and fulfilled at different times
NextListing ==
    \/ Tick
    \/ Register({OwnerRegistration})
    \/ PlaceOrder(TokenInputs, {BaseOrder}, MaxListed)
    \/ FulfillOrder(TokenInputs, ListedParams)
    \/ OrdersFileEdited
    \/ ListAdminOrders(TokenInputs)

SpecListing == Init /\ [][NextListing]_vars

\* sign-ups the handler refuses next to those it accepts: no email, and a new
\* account without its initials
RefusedRegistrations ==
    { OwnerRegistration, MemberRegistration,
      RegisterBody(JsString(Ghost), JsString(<< "C","y" >>), JsString(<< "D","o" >>), JsString(<< "C","D" >>)),
      RegisterBody(JsString(<< "x","@","y",".","z" >>), JsString(<< "C","y" >>), JsString(<< "D","o" >>),
                   JsString(<< "x","1" >>)) }

RefusedLogins == { LoginBody(JsString(<< "x","@","y",".","z" >>)), LoginBody(JsUndefined) }

\* orders the handler refuses next to one it accepts: a quantity of 0, no Venmo
\* agreement, an unknown item, a size the item does not have
RefusedOrders ==
    { BaseOrder,
      [BaseOrder EXCEPT !.quantity = JsNumber(0)],
      [BaseOrder EXCEPT !.venmoAgreed = JsBool(FALSE)],
      [BaseOrder EXCEPT !.itemId = JsString(Ghost)],
      [BaseOrder EXCEPT !.selectedSize = JsString(<< "X","X","L" >>)] }

\* items the handler refuses next to one it accepts: no name, no price, an upload that
\* is not a PNG, and a 2XL price without sizes
RefusedItems ==
    { BaseItem,
      [BaseItem EXCEPT !.name = JsString(<< " " >>)],
      [BaseItem EXCEPT !.price = JsString(<< "a","b","c" >>)],
      [BaseItem EXCEPT !.imageDataUrl = JsString(<< "g","i","f" >>)],
      [BaseItem EXCEPT !.twoXlPrice = JsNumber(Units(28))] }

\* updates the handler refuses next to those it accepts: no field, a 2XL price without
\* sizes, and valid toggles together with a 2XL price that is no amount
RefusedPatches ==
    { Patch(Absent, Absent, JsBool(TRUE), Absent),
      Patch(JsBool(TRUE), Absent, Absent, Absent),
      Patch(Absent, Absent, Absent, Absent),
      Patch(JsBool(FALSE), Absent, Absent, JsNumber(Units(28))),
      Patch(JsBool(TRUE), JsBool(TRUE), JsBool(TRUE), JsString(<< "a","b","c" >>)),
      Patch(Absent, Absent, JsBool(TRUE), JsString(<< "a","b","c" >>)) }

RefusedParams == { TorchHat, Ghost, << " " >> }

\* every handler that writes, under requests it accepts and requests it refuses
NextRefusal ==
    \/ Register(RefusedRegistrations)
    \/ Login(RefusedLogins)
    \/ PlaceOrder(TokenInputs, RefusedOrders, MaxPlaced)
    \/ CreateItem(TokenInputs, RefusedItems, MaxItems)
    \/ UpdateItem(TokenInputs, RefusedParams, RefusedPatches)
    \/ DeleteItem(TokenInputs, RefusedParams)
    \/ FulfillOrder(TokenInputs, OrderParams \cup {<< " " >>})

SpecRefusal == Init /\ [][NextRefusal]_vars

\* updates that name no field, one field, and several fields
PartialPatches ==
    { Patch(Absent, Absent, Absent, Absent),
      Patch(JsBool(TRUE), Absent, Absent, Absent),
      Patch(JsBool(FALSE), Absent, Absent, Absent),
      Patch(Absent, JsBool(TRUE), Absent, Absent),
      Patch(Absent, Absent, JsBool(TRUE), Absent),
      Patch(Absent, Absent, Absent, JsNumber(Units(28))),
      Patch(Absent, Absent, Absent, JsNull),
      Patch(JsBool(TRUE), Absent, Absent, JsNumber(Units(28))),
      Patch(JsBool(FALSE), JsBool(TRUE), Absent, Absent),
      Patch(Absent, JsBool(FALSE), JsBool(FALSE), Absent) }

\* the owner creates a product and edits it and the seeded one, field by field
NextPatch ==
    \/ Register({OwnerRegistration})
    \/ CreateItem(TokenInputs, {BaseItem}, MaxItems)
    \/ UpdateItem(TokenInputs, CatalogParams, PartialPatches)

SpecPatch == Init /\ [][NextPatch]_vars

\* sign-ups and sign-ins that name the owner's address, with a profile and with the
\* address alone, next to a member's
OwnerClaims ==
    { OwnerRegistration,
      RegisterBody(JsString(HandWritten(OWNER_EMAIL)), JsUndefined, JsUndefined, JsUndefined),
      MemberRegistration }

OwnerLogins == { LoginBody(JsString(HandWritten(OWNER_EMAIL))), LoginBody(JsString(MemberEmail)) }

\* clients sign up and sign in with an address and then call the owner's operations
NextOwner ==
    \/ Register(OwnerClaims)
    \/ Login(OwnerLogins)
    \/ ListAdminMerch(TokenInputs)
    \/ ListAdminOrders(TokenInputs)
    \/ CreateItem(TokenInputs, {BaseItem}, MaxItems)
    \/ UpdateItem(TokenInputs, ItemParams, {Patch(Absent, Absent, JsBool(TRUE), Absent)})
    \/ DeleteItem(TokenInputs, ItemParams)
    \/ PlaceOrder(TokenInputs, LifecycleBodies, MaxPlaced)
    \/ FulfillOrder(TokenInputs, {randomUUID("o", 0)})

SpecOwner == Init /\ [][NextOwner]_vars

\* the catalog from its first read on: the owner deletes and creates products, the owner
\* and a member look at the listings, and the process restarts
NextSeed ==
    \/ Register({OwnerRegistration, MemberRegistration})
    \/ CreateItem(TokenInputs, {BaseItem}, MaxItems)
    \/ DeleteItem(TokenInputs, CatalogParams)
    \/ ListMerch(TokenInputs)
    \/ ListAdminMerch(TokenInputs)
    \/ Restart

SpecSeed == Init /\ [][NextSeed]_vars

\* the sign-ins of the Google-approval revision, among them the member's with the
\* account id every Google token carries
ApprovalSignIns ==
    GoogleBodies
    \cup { GoogleBody(JsString(<< "s" >>),
                      Some(GooglePayload(JsString(MemberEmail), JsString(<< "A","l"," ","B","o" >>),
                                         JsBool(TRUE), JsString(<< "7" >>)))) }

\* the owner's account as the password revision left it in users.json (PasswordRegister
\* for the owner email and the name Cy): a name, and no first name, last name or initials
LegacyOwner ==
    [ id |-> randomUUID("u", 0),
      email |-> OWNER_EMAIL,
      provider |-> "",
      firstName |-> << >>,
      lastName |-> << >>,
      initials |-> << >>,
      name |-> << "C","y" >>,
      approved |-> FALSE,
      approvedBy |-> Null ]

\* the latest revision started on the data directory of the password revision
InitHandover ==
    /\ users = << LegacyOwner >>
    /\ sessions = <<>>
    /\ merchExists = FALSE
    /\ merchItems = <<>>
    /\ uploads = {}
    /\ orders = <<>>
    /\ clock = 1
    /\ tokens = 0
    /\ userIds = 1
    /\ orderIds = 0
    /\ itemIds = 0
    /\ env = ShippedEnv
    /\ last = NoRequest
    /\ cookie = 0
    /\ mail = <<>>
    /\ disk = NewDisk
    /\ placedOk = 0
    /\ firstFulfill = <<>>

\* sign-ups for the owner's account, with the email alone and with a full profile, and
\* the member's sign-up
HandoverRegistrations ==
    { RegisterBody(JsString(OWNER_EMAIL), JsUndefined, JsUndefined, JsUndefined),
      OwnerRegistration, MemberRegistration }

\* orders placed and fulfilled under the latest revision by accounts old and new
NextHandover ==
    \/ Tick
    \/ Register(HandoverRegistrations)
    \/ PlaceOrder(TokenInputs, {BaseOrder}, MaxOrders)
    \/ FulfillOrder(TokenInputs, OrderParams)

SpecHandover == InitHandover /\ [][NextHandover]_vars

\* the Google-approval revision on its own: sign-in, approval request and approval
NextApproval ==
    \/ GoogleSignIn(ApprovalSignIns)
    \/ RequestApproval(ApprovalBodies)
    \/ ApproveUser(TokenInputs, UserParams)
    \/ Restart

SpecApproval == InitIdentity /\ [][NextApproval]_vars

\* the arrays written: empty, and of one record
StoredRows == { << >>, << "r" >> }

\* the storage layer under reads and writes, files removed or damaged by hand, and restarts
NextStorage ==
    \/ ReadJsonArray
    \/ WriteJsonArray(StoredRows)
    \/ FileRemoved
    \/ FileDamaged
    \/ Restart

SpecStorage == Init /\ [][NextStorage]_vars

PasswordRegistration(email, name, password) == [email |-> email, name |-> name, password |-> password]

LongPassword == JsString(<< "p","a","s","s","w","o","r","d" >>)

\* the accounts the password revision is asked for: full names, a single name, a name
\* that gives no initials, and requests it refuses
PasswordRegistrations ==
    { PasswordRegistration(JsString(MemberEmail), JsString(<< "A","l"," "," ","B","o" >>), LongPassword),
      PasswordRegistration(JsString(MemberEmail), JsString(<< "C","y" >>), LongPassword),
      PasswordRegistration(JsString(toUpperCase(OWNER_EMAIL)), JsString(<< "4"," ","u" >>), LongPassword),
      PasswordRegistration(JsString(<< "x","@","y",".","z" >>), JsString(<< "E","d"," ","F","o" >>),
                           LongPassword),
      PasswordRegistration(JsString(Ghost), JsString(<< "C","y" >>), LongPassword),
      PasswordRegistration(JsString(MemberEmail), JsUndefined, LongPassword),
      PasswordRegistration(JsString(MemberEmail), JsString(<< "C","y" >>), JsString(<< "p","w" >>)) }

InitLegacy ==
    /\ users = <<>>
    /\ sessions = <<>>
    /\ merchExists = FALSE
    /\ merchItems = <<>>
    /\ uploads = {}
    /\ orders = <<>>
    /\ clock = 1
    /\ tokens = 0
    /\ userIds = 0
    /\ orderIds = 0
    /\ itemIds = 0
    /\ env = [PASSWORD_GATE_ENABLED |-> PASSWORD_GATE_ENABLED, LOGIN_PASSWORD |-> Null,
              revision |-> "password"]
    /\ last = NoRequest
    /\ cookie = 0
    /\ mail = <<>>
    /\ disk = NewDisk
    /\ placedOk = 0
    /\ firstFulfill = <<>>

\* the accounts of the password revision under the sign-up and login of the latest
\* revision, deployed after it on the same data directory
NextLegacy ==
    \/ env.revision = "password" /\ PasswordRegister(PasswordRegistrations)
    \/ env.revision = "latest" /\ Register(IdentityRegistrations)
    \/ env.revision = "latest" /\ Login(LoginBodies)
    \/ env.revision = "password" /\ Deploy

SpecLegacy == InitLegacy /\ [][NextLegacy]_vars

-----------------------------------------------------------------------------
(* Properties.                                                             *)

\* a step that appends an order, and the order it appends
OrderPlaced == Len(orders') = Len(orders) + 1
PlacedOrder == orders'[Len(orders')]

\* a step that handles a place-order request
PlaceOrderHandled == last'.op = "placeOrder" /\ last' # last

\* the catalog entries with the given id, as the catalog reads before the step
CatalogEntries(id) ==
    LET items == readMerchItems IN { items[i] : i \in { j \in 1..Len(items) : items[j].id = id } }

\* the stored orders with the given id
StoredOrders(id) == { orders[i] : i \in { j \in 1..Len(orders) : orders[j].id = id } }

TwoXl == << "2","X","L" >>

\* C1: after any sequence of successful fulfill requests, the stored and the returned
\* fulfilledAt and fulfilledBy of an order are the values its first successful fulfill wrote.
C1_FirstWriteWins ==
    /\ \A id \in DOMAIN firstFulfill : \A order \in StoredOrders(id) :
          /\ order.fulfilledAt = Some(firstFulfill[id].at)
          /\ order.fulfilledBy = Some(firstFulfill[id].by)
    /\ (last.op = "fulfill" /\ last.status = 200) =>
          /\ Val(last.body).fulfilledAt = Some(firstFulfill[Val(last.body).id].at)
          /\ Val(last.body).fulfilledBy = Some(firstFulfill[Val(last.body).id].by)

\* an order was fulfilled again, at a later time than its first fulfill
C1_Refulfilled ==
    /\ last.op = "fulfill" /\ last.status = 200
    /\ firstFulfill[Val(last.body).id].again
    /\ StoredOrders(Val(last.body).id) # {}

\* C2: an order is created open, a fulfilled order stays fulfilled in every later state,
\* and no step removes an order from the collection or changes its place or id.
C2_Monotonic ==
    [][ /\ Len(orders') >= Len(orders)
        /\ \A i \in 1..Len(orders) :
              /\ orders'[i].id = orders[i].id
              /\ orders[i].fulfilled => orders'[i].fulfilled
        /\ \A i \in (Len(orders) + 1)..Len(orders') : ~orders'[i].fulfilled ]_vars

\* a fulfilled order and an open one outlive the deletion of the item they name
C2_FulfilledOutlivesItem ==
    /\ merchExists /\ merchItems = <<>>
    /\ \E i, j \in 1..Len(orders) : orders[i].fulfilled /\ ~orders[j].fulfilled
    /\ \E id \in DOMAIN firstFulfill : firstFulfill[id].again

\* C3: no write to the orders collection is lost: after N placements answered with success
\* the collection holds N orders with pairwise distinct ids, and every order a fulfill
\* request answered with success for is stored as fulfilled.
C3_NoLostWrite ==
    /\ Len(orders) = placedOk
    /\ \A i, j \in 1..Len(orders) : orders[i].id = orders[j].id => i = j
    /\ \A id \in DOMAIN firstFulfill : \E order \in StoredOrders(id) : order.fulfilled

\* two users placed an order each, the second after the first order was fulfilled
C3_PlacementsAroundFulfill ==
    /\ placedOk >= 2
    /\ orders[1].userId # orders[2].userId
    /\ orders[1].fulfilled
    /\ Val(orders[1].fulfilledAt) < orders[2].createdAt

IsIntegerQuantity(qty) ==
    ~qty.nan /\ qty.n % 1000 = 0 /\ qty.n >= Units(1) /\ qty.n <= Units(50)

\* C4: a request whose quantity is not an integer in [1, 50] is rejected with a validation
\* error, and every stored order has an integer quantity between 1 and 50.
C4_IntegerQuantity ==
    /\ (last.op = "placeOrder" /\ last.status \notin {401, 403}
           /\ ~IsIntegerQuantity(ToNumber(last.req.quantity)))
          => last.status = 400
    /\ \A i \in 1..Len(orders) : IsIntegerQuantity(Num(orders[i].quantity))

\* an order stored with a quantity that is not a whole number
C4_FractionalQuantityStored ==
    /\ last.op = "placeOrder" /\ last.status = 200
    /\ last.req.quantity = JsNumber(2500)
    /\ \E i \in 1..Len(orders) : orders[i].quantity = 2500

\* C5: an order is created only when the request's venmoAgreed is the boolean true, and
\* every stored order has venmoAgreed = true.
C5_VenmoExactlyTrue ==
    /\ (last.op = "placeOrder" /\ last.status = 200) => last.req.venmoAgreed = JsBool(TRUE)
    /\ \A i \in 1..Len(orders) : orders[i].venmoAgreed = TRUE

\* an order placed on a venmoAgreed that is the string "false"
C5_NonBooleanAccepted ==
    /\ last.op = "placeOrder" /\ last.status = 200
    /\ last.req.venmoAgreed = JsString(<<"f","a","l","s","e">>)
    /\ Val(last.body).venmoAgreed = TRUE

\* C6: in every state, the totalPrice of every stored order is a whole number of cents
\* within half a cent of quantity x unitPrice.
C6_TotalPriceRounded ==
    \A i \in 1..Len(orders) :
        LET exact == orders[i].quantity * orders[i].unitPrice
            total == orders[i].totalPrice * 1000
        IN  /\ orders[i].totalPrice % 10 = 0
            /\ total - exact <= 5000
            /\ exact - total <= 5000

\* a stored, fulfilled order whose quantity x unitPrice is not a whole number of cents
C6_RoundingNeeded ==
    \E i \in 1..Len(orders) :
        /\ (orders[i].quantity * orders[i].unitPrice) % 10000 # 0
        /\ orders[i].fulfilled

\* C7: the unit price of a new order is the item's twoXlPrice when the order's size is 2XL
\* and the item has a twoXlPrice, and the item's base price otherwise, both as the catalog
\* holds them when the order is placed.
C7_UnitPrice ==
    [][ OrderPlaced =>
          \E item \in CatalogEntries(PlacedOrder.itemId) :
              PlacedOrder.unitPrice =
                  IF PlacedOrder.selectedSize = Some(TwoXl) /\ ~IsNull(item.twoXlPrice)
                  THEN Val(item.twoXlPrice)
                  ELSE item.price ]_vars

\* an order of size 2XL placed at the override price of its item
C7_OverridePriceCharged ==
    /\ last.op = "placeOrder" /\ last.status = 200
    /\ Val(last.body).selectedSize = Some(TwoXl)
    /\ \E item \in CatalogEntries(Val(last.body).itemId) :
          /\ item.twoXlPrice = Some(Val(last.body).unitPrice)
          /\ item.price # Val(last.body).unitPrice

\* the size a request supplies, trimmed and upper-cased
NormalizedSize(req) ==
    IF req.selectedSize.t = "string" THEN toUpperCase(trim(req.selectedSize.v)) ELSE <<>>

\* C8 as amended: an order for an item with sizes is placed only if the size supplied,
\* trimmed and upper-cased, is a member of the item's sizes, and that value is stored; a
\* valid request for an item without sizes is accepted whatever size it supplies; the stored
\* selectedSize is null exactly when the item has no sizes as the order is placed.
C8_SizeNormalized ==
    [][ /\ OrderPlaced =>
              \E item \in CatalogEntries(PlacedOrder.itemId) :
                  /\ IsNull(PlacedOrder.selectedSize) <=> item.sizes = <<>>
                  /\ item.sizes # <<>> =>
                        /\ includes(item.sizes, NormalizedSize(last'.req))
                        /\ PlacedOrder.selectedSize = Some(NormalizedSize(last'.req))
        /\ (/\ PlaceOrderHandled
            /\ last'.status \notin {401, 403}
            /\ [last'.req EXCEPT !.selectedSize = JsUndefined] = BaseOrder
            /\ \E item \in CatalogEntries(TorchHat) : item.sizes = <<>> /\ ~item.paused)
           => (OrderPlaced /\ IsNull(PlacedOrder.selectedSize)) ]_vars

\* C8 as claimed: an order for an item with sizes is placed only if the selectedSize of the
\* request is itself a member of the item's sizes.
C8_SizeVerbatim ==
    [][ OrderPlaced =>
          \E item \in CatalogEntries(PlacedOrder.itemId) :
              /\ IsNull(PlacedOrder.selectedSize) <=> item.sizes = <<>>
              /\ item.sizes # <<>> =>
                    /\ last'.req.selectedSize.t = "string"
                    /\ includes(item.sizes, last'.req.selectedSize.v) ]_vars

\* an order placed with a size that is a member of the item's sizes only once normalized
C8_LowerCaseSizeAccepted ==
    /\ last.op = "placeOrder" /\ last.status = 200
    /\ last.req.selectedSize = JsString(<<"x","l">>)
    /\ Val(last.body).selectedSize = Some(<<"X","L">>)

\* C9: a new order has includeInitials = true only if the request asked for initials and
\* the item allows them as the order is placed; for an item that does not allow them the
\* stored includeInitials is false.
C9_InitialsAllowed ==
    [][ OrderPlaced =>
          \E item \in CatalogEntries(PlacedOrder.itemId) :
              /\ PlacedOrder.includeInitials => (Truthy(last'.req.includeInitials) /\ item.allowInitials)
              /\ ~item.allowInitials => ~PlacedOrder.includeInitials ]_vars

\* initials asked for an item that does not allow them: the order is stored without them
C9_InitialsForcedOff ==
    /\ last.op = "placeOrder" /\ last.status = 200
    /\ Truthy(last.req.includeInitials)
    /\ ~Val(last.body).includeInitials
    /\ \E item \in CatalogEntries(Val(last.body).itemId) : ~item.allowInitials

\* C10: an order is appended only if the catalog, as the step writes the order, holds an
\* unpaused item with the requested id; a request that names an absent or paused item is
\* rejected and leaves the orders collection unchanged.
C10_ItemAvailable ==
    [][ /\ OrderPlaced =>
              /\ last'.req.itemId = JsString(PlacedOrder.itemId)
              /\ \E item \in CatalogEntries(PlacedOrder.itemId) : ~item.paused
        /\ (/\ PlaceOrderHandled
            /\ last'.req.itemId.t = "string"
            /\ \A item \in CatalogEntries(last'.req.itemId.v) : item.paused)
           => (orders' = orders /\ last'.status \in {400, 401, 403, 404}) ]_vars

\* with an order stored, a request for the item, paused since, is rejected
C10_PausedItemRejected ==
    /\ last.op = "placeOrder"
    /\ last.error = "This item is currently unavailable"
    /\ Len(orders) >= 1
    /\ \E i \in 1..Len(merchItems) : merchItems[i].id = orders[1].itemId /\ merchItems[i].paused

\* C11: a step that handles an item update or an item deletion leaves the
\* stored orders exactly as they were, so every order placed before keeps
\* its itemId, itemName, unitPrice, totalPrice and selectedSize.
C11_OrdersDenormalized ==
    [][last'.op \in {"updateItem", "deleteItem"} => orders' = orders]_vars

\* an order outlives a successful change or deletion of the item it names
C11_OrderOutlivesCatalogChange ==
    /\ last.op \in {"updateItem", "deleteItem"}
    /\ last.status = 200
    /\ \E i \in DOMAIN orders :
         \A item \in CatalogEntries(orders[i].itemId) :
           \/ item.paused
           \/ item.allowInitials # DEFAULT_MERCH_ITEMS[1].allowInitials
           \/ item.sizes # DEFAULT_MERCH_ITEMS[1].sizes
           \/ item.twoXlPrice # DEFAULT_MERCH_ITEMS[1].twoXlPrice

\* a step in which the handler named op answers a request; the handlers it is used
\* for write neither users.json nor the clock
Handled(op) == last'.op = op /\ users' = users /\ clock' = clock

\* the user record the cookie of the request resolves to before the step, if any
ResolvedUsers ==
    { users[i] : i \in { j \in DOMAIN users :
                           cookie' \in DOMAIN sessions /\ sessions[cookie'].userId = users[j].id } }

\* the session of the request has passed the password gate, or there is no gate
GatePassed == ~env.PASSWORD_GATE_ENABLED \/ sessions[cookie'].passwordVerified

\* C12: whenever a request resolves to a user record and is past the password
\* gate, the owner check passes exactly when the trimmed, lower-cased email of
\* the record as users.json holds it at that moment equals the owner email:
\* an owner-only listing answers 200 then and 403 "Owner access only"
\* otherwise, and "who am I" reports isOwner accordingly, whatever the
\* approved flag and the session hold.
C12_OwnerByEmail ==
    [][\A user \in ResolvedUsers :
          LET owner == toLowerCase(trim(user.email)) = OWNER_EMAIL IN
          /\ (Handled("listAdminMerch") \/ Handled("listOrders")) /\ GatePassed
                => /\ last'.status = 200 <=> owner
                   /\ (last'.status = 403 /\ last'.error = "Owner access only") <=> ~owner
          /\ Handled("me") => Val(last'.body).user.isOwner = owner]_vars

\* "who am I" reports the owner for a record read in the state a hand edit left it
\* in: approval lost, and the owner email in another spelling
C12_UnapprovedOwnerRecognized ==
    /\ last.op = "me"
    /\ last.status = 200
    /\ Val(last.body).user.isOwner
    /\ Val(last.body).user.email # OWNER_EMAIL
    /\ \E i \in DOMAIN users : users[i].id = Val(last.body).user.id /\ ~users[i].approved

\* the operations mounted behind ownerRequired
OwnerOps ==
    { "listAdminOrders", "listOrders", "fulfill", "listAdminMerch", "createItem", "updateItem",
      "deleteItem" }

\* a step in which one of the owner operations answers a request
OwnerOpHandled == \E op \in OwnerOps : Handled(op)

\* the step leaves the three collections, and the uploaded images, as they were
CollectionsUnchanged == UNCHANGED << users, orders, merchExists, merchItems, uploads >>

C13_AnonymousRefused ==
    /\ last.op = "deleteItem"
    /\ last.status = 401
    /\ cookie = 0
    /\ CatalogEntries(last.req) # {}

\* C14: no two records of users.json have the same trimmed, lower-cased email,
\* whatever register, login, Google sign-in, request-approval and approve
\* requests have been handled; so at most one record is the owner's.
C14_UniqueEmails ==
    /\ \A i, j \in DOMAIN users :
          toLowerCase(trim(users[i].email)) = toLowerCase(trim(users[j].email)) => i = j
    /\ Cardinality({i \in DOMAIN users : toLowerCase(trim(users[i].email)) = OWNER_EMAIL}) <= 1

\* a sign-up found the record of its email under another spelling and merged into it
C14_MergedUnderOtherSpelling ==
    /\ last.op \in {"register", "requestApproval"}
    /\ last.status = 200
    /\ Len(users) = 2
    /\ \E i \in DOMAIN users :
          /\ users[i].email # toLowerCase(trim(users[i].email))
          /\ toLowerCase(trim(users[i].email)) = toLowerCase(trim(last.req.email.v))

\* the approve operation of the Google-approval revision is owner-only as well
ApproveOwnerOnly ==
    [][last'.op = "approve" /\ ~(UNCHANGED << last, cookie >>) =>
          /\ getUserFromRequest(cookie') = Null => last'.status = 401 /\ users' = users
          /\ \A user \in ResolvedUsers :
                toLowerCase(trim(user.email)) # OWNER_EMAIL => last'.status = 403 /\ users' = users]_vars

\* the operations mounted behind authRequired
GatedOps == OwnerOps \cup { "listMerch", "placeOrder" }

\* a session whose passwordVerified flag comes to hold in this step
NewlyVerified ==
    { t \in DOMAIN sessions' :
        /\ sessions'[t].passwordVerified
        /\ t \in DOMAIN sessions => ~sessions[t].passwordVerified }

\* C15: with the password gate enabled, a request to an endpoint behind
\* authRequired whose session has passwordVerified false is answered
\* 403 "Password verification required" and changes neither the collections
\* nor the sessions; a request gets past authRequired only when the gate is
\* disabled or its session is verified, and with the gate enabled a session
\* becomes verified only in a verify-password request of that session that
\* succeeds.
C15_PasswordGate ==
    [][/\ \A op \in GatedOps :
            Handled(op) /\ ResolvedUsers # {}
              => /\ ~GatePassed
                      => /\ last'.status = 403
                         /\ last'.error = "Password verification required"
                         /\ CollectionsUnchanged
                         /\ sessions' = sessions
                 /\ (last'.status = 200 => GatePassed)
       /\ env.PASSWORD_GATE_ENABLED
            => \A t \in NewlyVerified :
                  last'.op = "verifyPassword" /\ last'.status = 200 /\ cookie' = t]_vars

\* an order placement was refused to a session that has not passed the gate
C15_PendingSessionRefused ==
    /\ last.op = "placeOrder"
    /\ last.status = 403
    /\ last.error = "Password verification required"
    /\ cookie \in DOMAIN sessions
    /\ ~sessions[cookie].passwordVerified

\* the same session places its order once it has verified the password
C15_VerifiedSessionServed ==
    /\ env.PASSWORD_GATE_ENABLED
    /\ last.op = "placeOrder"
    /\ last.status = 200

\* the secret the gate compares with: LOGIN_PASSWORD, trimmed, '' when it is not set
ConfiguredSecret == IF IsNull(env.LOGIN_PASSWORD) THEN <<>> ELSE trim(Val(env.LOGIN_PASSWORD))

\* the sessions that outlive the step keep their passwordVerified flag
FlagsUnchanged ==
    \A t \in DOMAIN sessions' :
        t \in DOMAIN sessions /\ sessions'[t].passwordVerified = sessions[t].passwordVerified

C16_WrongPasswordRejected ==
    /\ last.op = "verifyPassword"
    /\ last.status = 401
    /\ last.error = "Incorrect password"
    /\ cookie \in DOMAIN sessions
    /\ ~sessions[cookie].passwordVerified

\* the tokens the process has issued so far
IssuedTokens == 1..tokens

\* C17: a logout request is always answered with success, whether its token
\* is live, revoked or unknown, and leaves no session under its token; a
\* token that has been issued and has no session never has one again, since
\* every session created is stored under a token not issued before.  So
\* after the logout of token t, t resolves to no user in every later state.
C17_LogoutDestroysSession ==
    [][/\ Handled("logout") => last'.status = 200 /\ cookie' \notin DOMAIN sessions'
       /\ \A t \in IssuedTokens : t \notin DOMAIN sessions => t \notin DOMAIN sessions'
       /\ DOMAIN sessions' \ DOMAIN sessions \subseteq {tokens + 1}
       /\ tokens' >= tokens]_vars

\* a logout of one of two issued tokens: its session is gone, the other one is live
C17_OneOfTwoLoggedOut ==
    /\ last.op = "logout"
    /\ tokens = 2
    /\ cookie \in IssuedTokens
    /\ DOMAIN sessions = IssuedTokens \ {cookie}

\* a sign-in after the logout of the first token: the new session has the second token
C17_SignedInAgain ==
    /\ last.op = "login"
    /\ last.status = 200
    /\ DOMAIN sessions = {2}
    /\ Len(users) = 1

\* the operations of the session specification that resolve the request through getAuthContext
ResolvingOps == { "me", "verifyPassword", "listMerch", "listAdminMerch", "listOrders" }

\* the session of the request names a user that users.json does not hold
UserGone == cookie' \in DOMAIN sessions /\ ResolvedUsers = {}

Restarted == last' = NoRequest

\* C19: a restart of the process empties the session table and leaves users,
\* orders, merch items and uploads exactly as they were; no token issued
\* before it has a session in any later state, since a token without a
\* session never gets one again.
C19_RestartClearsSessionsOnly ==
    [][/\ Restarted
            => /\ sessions' = <<>>
               /\ CollectionsUnchanged
               /\ UNCHANGED << env, tokens, userIds, orderIds, itemIds, clock >>
       /\ \A t \in IssuedTokens \ DOMAIN sessions : t \notin DOMAIN sessions'
       /\ DOMAIN sessions' \ DOMAIN sessions \subseteq {tokens + 1} \ IssuedTokens]_vars

\* after a restart: the users, the order and the catalog are there, the sessions are not
C19_RestartedWithData ==
    /\ last = NoRequest
    /\ sessions = <<>>
    /\ tokens = 2
    /\ Len(users) = 2
    /\ orders # <<>>
    /\ merchItems # <<>>

\* no item of the list has a 2XL price without having sizes
NoPriceWithoutSizes(items) ==
    \A i \in DOMAIN items : items[i].sizes = <<>> => IsNull(items[i].twoXlPrice)

\* a create, update or delete request that was answered with success
CatalogWritten ==
    (Handled("createItem") \/ Handled("updateItem") \/ Handled("deleteItem")) /\ last'.status = 200

\* the item of the request as the catalog holds it after the step
UpdatedItems == { merchItems'[i] : i \in { j \in DOMAIN merchItems' : merchItems'[j].id = trim(last'.req.itemId) } }

\* C20: every item the catalog returns has twoXlPrice = null when it has no
\* sizes, whatever merch-items.json holds, and so has every item of the file
\* a successful create, update or delete writes; an update that turns the
\* sizes off leaves the item without a 2XL price; a create that sends a
\* valid 2XL price without sizes, and an update that sends a twoXlPrice for
\* an item that ends up without sizes, are answered 400 and write nothing.
C20_NoPriceWithoutSizes ==
    /\ [](NoPriceWithoutSizes(readMerchItems))
    /\ [][/\ CatalogWritten => NoPriceWithoutSizes(merchItems')
          /\ (Handled("listAdminMerch") /\ last'.status = 200)
                => NoPriceWithoutSizes(Val(last'.body))
          /\ (/\ Handled("updateItem")
              /\ last'.status = 200
              /\ Has(last'.req.patch.includeSizes)
              /\ ~Truthy(last'.req.patch.includeSizes))
                => \A item \in UpdatedItems : item.sizes = <<>> /\ IsNull(item.twoXlPrice)
          /\ (/\ Handled("createItem")
              /\ last'.status \notin {401, 403}
              /\ ~Truthy(last'.req.includeSizes)
              /\ ~IsNull(normalizeOptionalPrice(last'.req.twoXlPrice)))
                => (last'.status = 400 /\ CollectionsUnchanged)
          /\ (/\ Handled("updateItem")
              /\ last'.status = 200
              /\ Has(last'.req.patch.twoXlPrice))
                => \A item \in UpdatedItems : item.sizes # <<>>]_vars

\* an update has turned the sizes of an item off, and the item has no 2XL price
C20_PriceClearedWithSizes ==
    /\ last.op = "updateItem"
    /\ last.status = 200
    /\ last.req.patch.includeSizes = JsBool(FALSE)
    /\ \E i \in DOMAIN merchItems :
          /\ merchItems[i].id = trim(last.req.itemId)
          /\ merchItems[i].sizes = <<>>
          /\ IsNull(merchItems[i].twoXlPrice)

\* a product form with a 2XL price and no sizes was refused
C20_CreateRefused ==
    /\ last.op = "createItem"
    /\ last.status = 400
    /\ last.error = "Enable sizes before setting a 2XL price"

\* the file holds a 2XL price on an item without sizes, which the catalog does not return
C20_FileOverrideIgnored ==
    /\ ~NoPriceWithoutSizes(merchItems)
    /\ last.op = "listAdminMerch"
    /\ last.status = 200
    /\ Len(Val(last.body)) = Len(merchItems)

\* the k-th of the positions, counted from the lowest
KthOf(positions, k) == CHOOSE i \in positions : Cardinality({j \in positions : j < i}) = k - 1

\* the list holds exactly the entries of the full list at the positions, in their order
ListsPositions(list, full, positions) ==
    /\ Len(list) = Cardinality(positions)
    /\ \A k \in 1..Len(list) : list[k] = full[KthOf(positions, k)]

\* the ids of the items, in the order of the list
IdsOf(items) == [i \in DOMAIN items |-> items[i].id]

\* C21: the public listing answers with exactly the items of the full listing
\* (what the owner listing returns) that are not paused, in the order the
\* catalog stores them, so no paused item is in it; an update, a pause or an
\* unpause among them, keeps every item at its position, so an unpaused item
\* is listed again where it was.
C21_PublicListing ==
    [][/\ (Handled("listMerch") /\ last'.status = 200)
            => /\ ListsPositions(Val(last'.body), readMerchItems',
                                 {i \in DOMAIN readMerchItems' : ~readMerchItems'[i].paused})
               /\ \A k \in DOMAIN Val(last'.body) : ~Val(last'.body)[k].paused
       /\ (Handled("listAdminMerch") /\ last'.status = 200)
            => Val(last'.body) = readMerchItems'
       /\ (Handled("updateItem") /\ last'.status = 200)
            => IdsOf(merchItems') = IdsOf(readMerchItems)]_vars

\* a member was shown a catalog of three items without the paused one in the middle
C21_PausedItemHidden ==
    /\ last.op = "listMerch"
    /\ last.status = 200
    /\ \E i \in DOMAIN users :
          /\ cookie \in DOMAIN sessions
          /\ sessions[cookie].userId = users[i].id
          /\ users[i].email = MemberEmail
    /\ Len(merchItems) = 3
    /\ merchItems[2].paused
    /\ IdsOf(Val(last.body)) = << merchItems[1].id, merchItems[3].id >>

\* the item in the middle of three was unpaused, and is still the one in the middle
C21_UnpausedInPlace ==
    /\ last.op = "updateItem"
    /\ last.status = 200
    /\ last.req.patch.paused = JsBool(FALSE)
    /\ Len(merchItems) = 3
    /\ merchItems[2].id = trim(last.req.itemId)
    /\ ~merchItems[2].paused

\* the image path is one of the uploads directory
ManagedUpload(image) == Len(image) > 9 /\ SubSeq(image, 1, 9) = << "/","u","p","l","o","a","d","s","/" >>

\* the file of the uploads directory the image path names
UploadFile(image) == SubSeq(image, 10, Len(image))

\* the list without its entry at the position
Without(list, index) == [k \in 1..(Len(list) - 1) |-> IF k < index THEN list[k] ELSE list[k + 1]]

\* C22: a delete answered with success removes the first catalog entry with
\* the id of the request and no other; it removes no file of the uploads
\* directory other than the one the removed item's image names, and none at
\* all when that image is not under /uploads/; the image files of the items
\* that stay in the catalog stay; the removal and the answer are the same
\* whether or not the file could be deleted.
C22_DeleteReleasesOwnUpload ==
    [][(Handled("deleteItem") /\ last'.status = 200) =>
          LET removed == Val(last'.body) IN
          /\ removed.id = trim(last'.req)
          /\ \E index \in DOMAIN readMerchItems :
                /\ readMerchItems[index] = removed
                /\ \A j \in 1..(index - 1) : readMerchItems[j].id # removed.id
                /\ merchItems' = Without(readMerchItems, index)
          /\ uploads' \subseteq uploads
          /\ uploads \ uploads' \subseteq {UploadFile(removed.image)}
          /\ ~ManagedUpload(removed.image) => uploads' = uploads
          /\ \A i \in DOMAIN merchItems' :
                (ManagedUpload(merchItems'[i].image) /\ UploadFile(merchItems'[i].image) \in uploads)
                  => UploadFile(merchItems'[i].image) \in uploads']_vars

\* an uploaded item was deleted and its file released, the other upload is still there
C22_UploadReleased ==
    /\ last.op = "deleteItem"
    /\ last.status = 200
    /\ ManagedUpload(Val(last.body).image)
    /\ UploadFile(Val(last.body).image) \notin uploads
    /\ \E i \in DOMAIN merchItems :
          /\ ManagedUpload(merchItems[i].image)
          /\ UploadFile(merchItems[i].image) \in uploads

\* an uploaded item was deleted and its file could not be: the item is gone all the same
C22_RemovedThoughFileKept ==
    /\ last.op = "deleteItem"
    /\ last.status = 200
    /\ ManagedUpload(Val(last.body).image)
    /\ UploadFile(Val(last.body).image) \in uploads
    /\ \A i \in DOMAIN merchItems : merchItems[i].id # Val(last.body).id

\* the seeded item with its static image was deleted next to uploaded ones
C22_StaticImageKept ==
    /\ last.op = "deleteItem"
    /\ last.status = 200
    /\ ~ManagedUpload(Val(last.body).image)
    /\ Cardinality(uploads) = MaxUploads

\* the number of times the event occurs in the trace
Occurrences(trace, event) == Cardinality({i \in DOMAIN trace : trace[i] = event})

\* a step of a notification, which leaves the number of notifications as it is
NotifierStep == mail' # mail /\ Len(mail') = Len(mail)

\* the n-th notification has settled
Settled(n) == n \in DOMAIN mail /\ mail[n].pc = "done"

\* a delivery attempt was made for the n-th order
Attempted(n) == n \in DOMAIN mail /\ mail[n].attempt >= 1

\* C23: every notification makes at most two delivery attempts, the second
\* one only after the wait that follows a failed first one; once it has
\* settled it carries a status object whose emailed is true exactly when an
\* attempt was accepted; and every notification settles.
C23_RetryBounded ==
    /\ [](\A n \in DOMAIN mail :
            /\ mail[n].attempt <= 2
            /\ Occurrences(mail[n].trace, "attempt") = mail[n].attempt
            /\ mail[n].pc = "done"
                 => /\ ~IsNull(mail[n].result)
                    /\ Val(mail[n].result).emailed <=> Occurrences(mail[n].trace, "sent") > 0)
    /\ [][\A n \in DOMAIN mail :
            (mail'[n].attempt = 2 /\ mail[n].attempt # 2)
              => /\ mail[n].attempt = 1
                 /\ mail[n].pc = "waiting"
                 /\ ~IsNull(mail[n].lastError)]_vars
    /\ \A n \in 1..MaxMailed : (Len(mail) >= n) ~> Settled(n)

\* both attempts for an order failed, and the notification ended with emailed = false
C23_GaveUpAfterTwo ==
    \E n \in DOMAIN mail :
      /\ mail[n].pc = "done"
      /\ mail[n].attempt = 2
      /\ Val(mail[n].result) = [emailed |-> FALSE, reason |-> "Owner notification unavailable"]

\* the first attempt failed and the retry was accepted
C23_RetrySucceeded ==
    \E n \in DOMAIN mail :
      /\ mail[n].pc = "done"
      /\ mail[n].attempt = 2
      /\ Val(mail[n].result).emailed

\* C24: an order request a signed-in user sends with valid fields for an
\* available item is answered 200 and appended to orders.json whatever the
\* mail settings are and whatever the notifications of earlier orders are
\* doing; no step of a notification changes orders.json or any other
\* collection; an order once stored stays stored as it is; every notification
\* is that of a stored order.
C24_PlacementDecoupled ==
    /\ [](/\ Len(mail) = Len(orders)
          /\ \A n \in DOMAIN mail : mail[n].orderId = orders[n].id)
    /\ [][/\ (Handled("placeOrder") /\ last'.req = BaseOrder /\ last'.status # 401)
               => /\ last'.status = 200
                  /\ orders' = Append(orders, Val(last'.body))
          /\ NotifierStep => CollectionsUnchanged
          /\ \A i \in DOMAIN orders : i \in DOMAIN orders' /\ orders'[i] = orders[i]]_vars

\* an order was stored although the mail of an earlier order could not be delivered
C24_PlacedAfterFailedMail ==
    /\ last.op = "placeOrder"
    /\ last.status = 200
    /\ Len(orders) = 2
    /\ mail[1].pc = "done"
    /\ ~Val(mail[1].result).emailed
    /\ Occurrences(mail[1].trace, "thrown") > 0

\* the positions of the event in the trace
PositionsOf(trace, event) == {i \in DOMAIN trace : trace[i] = event}

MailConfigured ==
    /\ env.SMTP_HOST \notin {Null, Some(<< >>)}
    /\ env.SMTP_USER \notin {Null, Some(<< >>)}
    /\ env.SMTP_PASS \notin {Null, Some(<< >>)}

\* C26: every stored order has its notification; with the mail transport
\* configured each of them comes to a first delivery attempt; without it no
\* attempt is ever made and each notification ends with emailed = false and
\* the reason "Email not configured".
C26_EachOrderNotified ==
    /\ [](/\ Len(mail) = Len(orders)
          /\ ~MailConfigured
               => \A n \in DOMAIN mail :
                    /\ mail[n].attempt = 0
                    /\ mail[n].pc \in {"scheduled", "done"}
                    /\ mail[n].pc = "done"
                         => Val(mail[n].result) = [emailed |-> FALSE, reason |-> "Email not configured"])
    /\ \A n \in 1..MaxMailed :
          /\ (Len(orders) >= n /\ MailConfigured) ~> Attempted(n)
          /\ (Len(orders) >= n /\ ~MailConfigured) ~> Settled(n)

\* two orders are stored, with the transport configured, and both have been attempted
C26_BothAttempted ==
    /\ MailConfigured
    /\ Len(orders) = 2
    /\ \A n \in DOMAIN mail : mail[n].attempt >= 1

\* an order is stored without mail settings and its notification ended unattempted
C26_NotConfigured ==
    /\ ~MailConfigured
    /\ Len(orders) >= 1
    /\ mail[1].pc = "done"
    /\ mail[1].attempt = 0

\* the email of a request as the handlers compare it
RequestedEmail(body) == toLowerCase(trim(ToStringOrEmpty(body.email)))

\* the positions of the users whose stored email is that of the request
ExistingFor(body) ==
    {i \in DOMAIN users : toLowerCase(trim(users[i].email)) = RequestedEmail(body)}

\* a step in which the operation answers a request
Answered(op) == last'.op = op /\ last' # last

\* a step in which register answers the request: a new answer, or the same answer
\* with a new session
SignUp(body) ==
    /\ last'.op = "register"
    /\ last'.req = body
    /\ last' # last \/ tokens' = tokens + 1

\* the profile field the request supplies, trimmed
Supplied(field) == trim(ToStringOrEmpty(field))

\* one to five capital letters
CapitalInitials(initials) ==
    /\ Len(initials) \in 1..5
    /\ \A i \in DOMAIN initials : initials[i] \in UpperSet

C27_InvalidInitialsIgnored ==
    /\ last.op = "register"
    /\ last.status = 200
    /\ last.req.initials = JsString(<< "x","1" >>)
    /\ \E i \in DOMAIN users : users[i].id = Val(last.body).id /\ CapitalInitials(users[i].initials)

\* the member signed up twice with the full form: one record, two sessions for it
C27_SignedUpTwice ==
    /\ last.op = "register"
    /\ last.status = 200
    /\ last.req = MemberRegistration
    /\ Len(users) = 1
    /\ DOMAIN sessions = {1, 2}
    /\ sessions[1].userId = users[1].id
    /\ sessions[2].userId = users[1].id

\* C28: a login for an email that no user record has, in any spelling, is
\* answered 404, issues no session and leaves users.json as it is; a login
\* answered 200 issues one session, for a record that was there before, and
\* leaves that record with a non-blank first and last name and initials of
\* one to five capital letters, and every other record as it was.
C28_LoginExistingOnly ==
    [][\A body \in LoginBodies :
          (Answered("login") /\ last'.req = body) =>
            /\ (ExistingFor(body) = {} /\ last'.status # 400)
                 => /\ last'.status = 404
                    /\ users' = users
                    /\ sessions' = sessions
                    /\ tokens' = tokens
            /\ last'.status = 200
                 => /\ ExistingFor(body) # {}
                    /\ tokens' = tokens + 1
                    /\ DOMAIN sessions' = DOMAIN sessions \cup {tokens'}
                    /\ Len(users') = Len(users)
                    /\ \E index \in ExistingFor(body) :
                          /\ sessions'[tokens'].userId = users[index].id
                          /\ users'[index].id = users[index].id
                          /\ trim(users'[index].firstName) # << >>
                          /\ trim(users'[index].lastName) # << >>
                          /\ CapitalInitials(users'[index].initials)
                          /\ \A j \in DOMAIN users : j # index => users'[j] = users[j]]_vars

\* a login for an email without an account was turned away while accounts exist
C28_UnknownEmailRefused ==
    /\ last.op = "login"
    /\ last.status = 404
    /\ users # << >>
    /\ sessions = << >>

\* an account of the password revision with a single name logged in, and has a profile
C28_ProfileBackFilled ==
    /\ last.op = "login"
    /\ last.status = 200
    /\ \E i \in DOMAIN users :
          /\ users[i].id = Val(last.body).id
          /\ users[i].name = << "C","y"," ","M","e","m","b","e","r" >>
          /\ users[i].firstName = << "C","y" >>
          /\ users[i].lastName = << "M","e","m","b","e","r" >>
          /\ users[i].initials = << "C","M" >>

\* the owner's account, whose name gives no initials, logged in and got the default ones
C28_DefaultInitials ==
    /\ last.op = "login"
    /\ last.status = 200
    /\ \E i \in DOMAIN users :
          /\ users[i].id = Val(last.body).id
          /\ users[i].email = OWNER_EMAIL
          /\ users[i].initials = << "D","C" >>

\* the key the fulfilled orders are sorted by
FulfilledKey(order) == IF IsNull(order.fulfilledAt) THEN order.createdAt ELSE Val(order.fulfilledAt)

\* the entry of a listing is the stored order, with the initials the listing shows
ListedAs(entry, order) == [entry EXCEPT !.userInitials = order.userInitials] = order

\* C29: an order listing answered 200 holds every stored order exactly once:
\* the orders that are not fulfilled in openOrders, the fulfilled ones in
\* fulfilledOrders, and nothing else; openOrders runs from the latest
\* createdAt to the earliest, fulfilledOrders from the latest fulfilledAt, or
\* createdAt where there is none, to the earliest; orders.json is as before.
C29_ListingPartitions ==
    [][(Handled("listAdminOrders") /\ last'.status = 200) =>
         LET openOrders == Val(last'.body).openOrders
             fulfilledOrders == Val(last'.body).fulfilledOrders
         IN  /\ orders' = orders
             /\ Len(openOrders) + Len(fulfilledOrders) = Len(orders)
             /\ \A i \in DOMAIN orders :
                   /\ ~orders[i].fulfilled =>
                        /\ \E k \in DOMAIN openOrders : ListedAs(openOrders[k], orders[i])
                        /\ \A k \in DOMAIN fulfilledOrders : fulfilledOrders[k].id # orders[i].id
                   /\ orders[i].fulfilled =>
                        /\ \E k \in DOMAIN fulfilledOrders : ListedAs(fulfilledOrders[k], orders[i])
                        /\ \A k \in DOMAIN openOrders : openOrders[k].id # orders[i].id
             /\ \A j, k \in DOMAIN openOrders :
                   j < k => openOrders[j].createdAt >= openOrders[k].createdAt
             /\ \A j, k \in DOMAIN fulfilledOrders :
                   j < k => FulfilledKey(fulfilledOrders[j]) >= FulfilledKey(fulfilledOrders[k])]_vars

\* a listing of two orders placed at the same time, the one fulfilled later first
\* although orders.json holds it second
C29_FulfilledLaterFirst ==
    /\ last.op = "listAdminOrders"
    /\ last.status = 200
    /\ Len(Val(last.body).fulfilledOrders) = 2
    /\ Len(Val(last.body).openOrders) = 1
    /\ Val(last.body).fulfilledOrders[1].id = orders[2].id
    /\ Val(last.body).fulfilledOrders[2].id = orders[1].id
    /\ orders[1].createdAt = orders[2].createdAt
    /\ FulfilledKey(Val(last.body).fulfilledOrders[1]) > FulfilledKey(Val(last.body).fulfilledOrders[2])

\* a listing whose open orders run from the later to the earlier
C29_OpenLatestFirst ==
    /\ last.op = "listAdminOrders"
    /\ last.status = 200
    /\ Len(Val(last.body).openOrders) >= 2
    /\ Val(last.body).openOrders[1].createdAt > Val(last.body).openOrders[2].createdAt

\* a listing with a fulfilled order that has no fulfilledAt, placed by its createdAt
\* ahead of an order fulfilled earlier
C29_FallsBackToCreatedAt ==
    /\ last.op = "listAdminOrders"
    /\ last.status = 200
    /\ Len(Val(last.body).fulfilledOrders) >= 2
    /\ IsNull(Val(last.body).fulfilledOrders[1].fulfilledAt)
    /\ ~IsNull(Val(last.body).fulfilledOrders[2].fulfilledAt)
    /\ Val(last.body).fulfilledOrders[1].createdAt > Val(Val(last.body).fulfilledOrders[2].fulfilledAt)

\* the request of the step was refused: every step of SpecRefusal is a request, and
\* last' is its answer
Refused == last'.status >= 400

\* the merch items are as before: merch-items.json is untouched, or it was missing and
\* now holds the items readMerchItems returned for the missing file
MerchItemsKept ==
    \/ merchExists' = merchExists /\ merchItems' = merchItems
    \/ ~merchExists /\ merchExists' /\ merchItems' = readMerchItems

C30_RefusedOnNewDirectory ==
    /\ last.op = "placeOrder"
    /\ last.status = 404
    /\ merchExists
    /\ merchItems = DEFAULT_MERCH_ITEMS
    /\ orders = << >>

\* a sign-up was refused while accounts exist
C30_SignUpRefused ==
    /\ last.op = "register"
    /\ last.status = 400
    /\ users # << >>

\* an item with an upload that is no PNG was refused by the owner's session
C30_UploadRefused ==
    /\ last.op = "createItem"
    /\ last.status = 400
    /\ last.error = "Image must be a PNG upload"
    /\ uploads = {}

\* a fulfill of an order that does not exist was refused while an order exists
C30_FulfillRefused ==
    /\ last.op = "fulfill"
    /\ last.status = 404
    /\ orders # << >>

\* a step in which readJsonArray was called for the file
ReadOf(file) == disk'.call.fn = "read" /\ disk'.call.file = file /\ disk' # disk

\* C31: every call of readJsonArray returns: for a file that is missing,
\* whether it was never created or was removed after an earlier read of the
\* same process, it creates the file holding the empty array and returns the
\* empty array, and for a file whose content is no JSON or no array it
\* returns the empty array.
C31_ReadNeverFails ==
    [][\A file \in DataFiles :
          ReadOf(file) =>
            /\ ~disk'.call.threw
            /\ disk.files[file].kind = "missing"
                 => disk'.files[file] = StoredArray(<< >>) /\ disk'.call.value = << >>
            /\ disk.files[file].kind \in {"object", "garbage"}
                 => disk'.call.value = << >>]_vars

\* C31, what holds: readJsonArray returns the empty array for a file that is no
\* JSON or no array, and for a missing file that this process has not read
\* before, which it creates; it throws exactly for a missing file that this
\* process has read before.
C31_ReadFailsOnlyOnceEnsured ==
    [][\A file \in DataFiles :
          ReadOf(file) =>
            /\ disk'.call.threw <=> (disk.files[file].kind = "missing" /\ file \in disk.ensured)
            /\ (disk.files[file].kind = "missing" /\ file \notin disk.ensured)
                 => disk'.files[file] = StoredArray(<< >>) /\ disk'.call.value = << >>
            /\ disk.files[file].kind \in {"object", "garbage"}
                 => disk'.call.value = << >> /\ disk'.files = disk.files]_vars

\* readJsonArray threw for users.json, removed after the process had read it
C31_ReadThrew ==
    /\ disk.call = Threw("read", "users.json")
    /\ "users.json" \in disk.ensured
    /\ disk.files["users.json"].kind = "missing"

\* readJsonArray returned the empty array for a damaged orders.json and left the file
C31_GarbageReadAsEmpty ==
    /\ disk.call = Returned("read", "orders.json", << >>)
    /\ disk.files["orders.json"].kind = "garbage"

\* the records users.json holds, before the step, for the user of the session
UsersOfSession(session) == { i \in DOMAIN users : users[i].id = session.userId }

\* the request of the step carried a session of the owner
OwnerAsked ==
    /\ cookie' \in DOMAIN sessions
    /\ \E j \in DOMAIN users : users[j].id = sessions[cookie'].userId /\ isOwnerUser(users[j])

\* C32: in the Google-approval revision every session belongs to the owner or
\* to a user whose approved flag is true; a record added for a user who is
\* not the owner has approved = false; the flag of such a user turns true
\* only in an approve request of the owner answered 200; and a session is
\* issued to such a user only by a Google sign-in that finds the flag true.
C32_ApprovalPrecondition ==
    /\ [](\A t \in DOMAIN sessions :
            \A i \in UsersOfSession(sessions[t]) : isOwnerUser(users[i]) \/ users[i].approved)
    /\ [][/\ \A i \in DOMAIN users' \ DOMAIN users :
                ~isOwnerUser(users'[i]) => ~users'[i].approved
          /\ \A i \in DOMAIN users :
                (~users[i].approved /\ users'[i].approved /\ ~isOwnerUser(users'[i]))
                  => last'.op = "approve" /\ last'.status = 200 /\ OwnerAsked
          /\ \A t \in DOMAIN sessions' \ DOMAIN sessions :
                \A i \in DOMAIN users' :
                  (users'[i].id = sessions'[t].userId /\ ~isOwnerUser(users'[i]))
                    => /\ last'.op = "google"
                       /\ i \in DOMAIN users
                       /\ users[i].approved]_vars

\* a member has a session: the owner approved the account and the member signed in
C32_ApprovedMemberSignedIn ==
    /\ last.op = "google"
    /\ last.status = 200
    /\ \E t \in DOMAIN sessions :
          \E i \in UsersOfSession(sessions[t]) :
            /\ ~isOwnerUser(users[i])
            /\ users[i].approved
            /\ users[i].approvedBy = Some(OWNER_EMAIL)

\* a member who asked for approval and was not approved tried to sign in, and has no session
C32_PendingMemberRefused ==
    /\ last.op = "google"
    /\ last.status = 403
    /\ last.error = "Your account is pending approval"
    /\ \E i \in DOMAIN users : ~isOwnerUser(users[i]) /\ ~users[i].approved
    /\ \A t \in DOMAIN sessions : \A i \in UsersOfSession(sessions[t]) : isOwnerUser(users[i])

\* C33: a Google sign-in answered 403, for an email without a record or for
\* an account that is pending approval, leaves users.json as it was.
C33_RejectedSignInWritesNothing ==
    [][(last'.op = "google" /\ last'.status = 403 /\ last' # last) => users' = users]_vars

\* C33, what holds: a Google sign-in answered 403 for an email without a record
\* leaves users.json as it was; answered 403 for a pending account it adds and
\* removes no record and leaves the id, the names, the initials and the
\* approved flag of every record as they were.
C33_RejectedSignInKeepsAccounts ==
    [][(last'.op = "google" /\ last'.status = 403 /\ last' # last) =>
         /\ last'.error = "This email is not approved yet" => users' = users
         /\ Len(users') = Len(users)
         /\ \A i \in DOMAIN users :
               /\ users'[i].id = users[i].id
               /\ users'[i].firstName = users[i].firstName
               /\ users'[i].lastName = users[i].lastName
               /\ users'[i].initials = users[i].initials
               /\ users'[i].approved = users[i].approved]_vars

\* a pending member was refused, and the refused sign-in left the Google account id
\* in the record
C33_PendingSignInRecorded ==
    /\ last.op = "google"
    /\ last.status = 403
    /\ last.error = "Your account is pending approval"
    /\ \E i \in DOMAIN users :
          /\ ~users[i].approved
          /\ googleSubOf(users[i]) = Some(<< "7" >>)

\* C34: every stored order is fulfilled exactly when it has a fulfilledAt and
\* exactly when it has a fulfilledBy; the two fields of an order change only
\* in the step that turns its fulfilled flag on, a fulfill request answered
\* 200, which sets fulfilledAt to the time of the step and fulfilledBy to the
\* email of the user of the request, who passes the owner check in that step.
C34_AuditFieldsConsistent ==
    /\ [](\A i \in DOMAIN orders :
            /\ orders[i].fulfilled <=> ~IsNull(orders[i].fulfilledAt)
            /\ orders[i].fulfilled <=> ~IsNull(orders[i].fulfilledBy))
    /\ [][\A i \in DOMAIN orders :
            (orders'[i].fulfilledAt # orders[i].fulfilledAt
               \/ orders'[i].fulfilledBy # orders[i].fulfilledBy
               \/ orders'[i].fulfilled # orders[i].fulfilled)
              => /\ ~orders[i].fulfilled /\ orders'[i].fulfilled
                 /\ last'.op = "fulfill" /\ last'.status = 200
                 /\ orders'[i].fulfilledAt = Some(clock)
                 /\ \E user \in ResolvedUsers :
                       isOwnerUser(user) /\ orders'[i].fulfilledBy = Some(user.email)]_vars

\* the owner fulfilled one of two orders: it carries the time and the owner's email,
\* the other has neither
C34_OneOfTwoFulfilled ==
    /\ last.op = "fulfill" /\ last.status = 200
    /\ clock = 2
    /\ \E i, j \in DOMAIN orders :
          /\ orders[i].fulfilled
          /\ orders[i].fulfilledAt = Some(2)
          /\ orders[i].fulfilledBy = Some(OWNER_EMAIL)
          /\ ~orders[j].fulfilled
          /\ IsNull(orders[j].fulfilledAt) /\ IsNull(orders[j].fulfilledBy)

\* the stored orders the fulfill request of the step names
FulfillTargets == { i \in DOMAIN orders : orders[i].id = trim(last'.req) }

\* the order after the step is the order before it in every field but fulfilled,
\* fulfilledAt, fulfilledBy and userInitials
OtherFieldsKept(i) ==
    [orders'[i] EXCEPT !.fulfilled = orders[i].fulfilled,
                       !.fulfilledAt = orders[i].fulfilledAt,
                       !.fulfilledBy = orders[i].fulfilledBy,
                       !.userInitials = orders[i].userInitials] = orders[i]

\* everything but the order at i is as before the step
OnlyOrderTouched(i) ==
    /\ Len(orders') = Len(orders)
    /\ \A j \in DOMAIN orders : j # i => orders'[j] = orders[j]
    /\ UNCHANGED << users, merchExists, merchItems, uploads >>

C35_MemberOrderFulfilled ==
    /\ last.op = "fulfill" /\ last.status = 200
    /\ \E i \in DOMAIN orders :
          /\ orders[i].id = trim(last.req)
          /\ orders[i].userEmail = MemberEmail
          /\ orders[i].fulfilledBy = Some(OWNER_EMAIL)

\* the item written has every field the patch does not name as the item read had it
AbsentFieldsKept(current, updated, patch) ==
    /\ ~Has(patch.includeSizes) => updated.sizes = current.sizes
    /\ ~Has(patch.allowInitials) => updated.allowInitials = current.allowInitials
    /\ ~Has(patch.paused) => updated.paused = current.paused
    /\ ~Has(patch.twoXlPrice) =>
         updated.twoXlPrice = IF Has(patch.includeSizes) /\ ~Truthy(patch.includeSizes)
                              THEN Null
                              ELSE current.twoXlPrice

\* the patch names none of includeSizes, allowInitials, paused and twoXlPrice
NamesNoField(patch) ==
    ~Has(patch.includeSizes) /\ ~Has(patch.allowInitials) /\ ~Has(patch.paused) /\ ~Has(patch.twoXlPrice)

\* the item written differs from the item read in the four updatable fields at most
IdentityKept(current, updated) ==
    [updated EXCEPT !.sizes = current.sizes,
                    !.allowInitials = current.allowInitials,
                    !.paused = current.paused,
                    !.twoXlPrice = current.twoXlPrice] = current

\* the items written are the items read, but for the first with the id of the request
PartialUpdateOf(items, written, itemId, patch) ==
    /\ Len(written) = Len(items)
    /\ \E i \in DOMAIN items : items[i].id = itemId
    /\ \A i \in DOMAIN items :
          /\ normalizeMerchItem(written[i]) = Some(written[i])
          /\ IF items[i].id = itemId /\ \A j \in 1..(i - 1) : items[j].id # itemId
             THEN IdentityKept(items[i], written[i]) /\ AbsentFieldsKept(items[i], written[i], patch)
             ELSE written[i] = items[i]

\* C36: an update answered 200 writes the items it read with the named one
\* changed only in the fields its patch names (and in twoXlPrice, cleared, when
\* the patch turns the sizes off): id, name, price, image and createdAt are as
\* read, every other item is as read and at its position, and what was written
\* reads back as written; an update whose patch names none of the four fields
\* is refused, and a refused update leaves the items as they were.
C36_UpdateIsPartial ==
    [][Answered("updateItem") =>
         /\ NamesNoField(last'.req.patch) => last'.status >= 400
         /\ last'.status >= 400 => MerchItemsKept
         /\ last'.status = 200 =>
              \A items \in {readMerchItems} :
                 PartialUpdateOf(items, merchItems', trim(last'.req.itemId), last'.req.patch)]_vars

\* of two products, the one with sizes, initials and a 2XL price was paused by an update
\* that names the pause alone, and has them still
C36_PausedAlone ==
    /\ last.op = "updateItem" /\ last.status = 200
    /\ last.req.patch = Patch(Absent, Absent, JsBool(TRUE), Absent)
    /\ Len(merchItems) = 2
    /\ \E i \in DOMAIN merchItems :
          /\ merchItems[i].id = trim(last.req.itemId)
          /\ merchItems[i].paused
          /\ merchItems[i].allowInitials
          /\ merchItems[i].sizes = STANDARD_SIZES
          /\ merchItems[i].twoXlPrice = Some(Units(28))

\* an update that names no field was refused
C36_EmptyPatchRefused ==
    /\ last.op = "updateItem" /\ last.status = 400
    /\ last.error = "No product updates provided"
    /\ last.req.patch = Patch(Absent, Absent, Absent, Absent)

\* an update that turned the sizes off and named no price cleared the 2XL price
C36_PriceClearedWithSizes ==
    /\ last.op = "updateItem" /\ last.status = 200
    /\ last.req.patch = Patch(JsBool(FALSE), Absent, Absent, Absent)
    /\ IsNull(Val(last.body).twoXlPrice) /\ Val(last.body).allowInitials

\* the operations behind ownerRequired
OwnerOnly == { "listAdminMerch", "listAdminOrders", "createItem", "updateItem", "deleteItem", "fulfill" }

\* the token names a session of a user stored under the owner's address
OwnerSession(token) ==
    /\ token \in DOMAIN sessions
    /\ \E i \in DOMAIN users : users[i].id = sessions[token].userId /\ isOwnerUser(users[i])

\* the request names the address of a stored account
NamesAccount(body) ==
    \E i \in DOMAIN users : Some(StoredEmailKey(users[i])) = normalizeEmail(body.email)

\* C37: with the gate switched off every session is created with
\* passwordVerified = true; register and login check nothing but the address:
\* each answers 200 for the address of a stored account whatever else the
\* request holds, and a 200 adds a session for the user of that address; and
\* every owner-only operation called with a session of the user stored under
\* the owner's address passes authRequired and ownerRequired, from the state
\* the session is issued in onward.
C37_OwnerEmailOpensOwnerOperations ==
    /\ [](\A token \in DOMAIN sessions : sessions[token].passwordVerified)
    /\ [][(last'.op \in {"register", "login"} /\ tokens < MaxSessions /\ NamesAccount(last'.req))
            => /\ last'.status = 200
               /\ tokens' = tokens + 1
               /\ DOMAIN sessions' = DOMAIN sessions \cup {tokens'}
               /\ sessions'[tokens'].passwordVerified
               /\ \E i \in DOMAIN users' :
                     /\ users'[i].id = sessions'[tokens'].userId
                     /\ Some(users'[i].email) = normalizeEmail(last'.req.email)]_vars
    /\ [][(last'.op \in OwnerOnly /\ OwnerSession(cookie')) => last'.status \notin {401, 403}]_vars

\* a second client signed in with the owner's address alone and deleted the product
C37_SecondClientDeleted ==
    /\ last.op = "deleteItem" /\ last.status = 200
    /\ cookie = 2
    /\ OwnerSession(1) /\ OwnerSession(2)
    /\ merchExists /\ merchItems = <<>>

\* a member's session is refused by the owner check
C37_MemberRefused ==
    /\ last.op \in OwnerOnly /\ last.status = 403 /\ last.error = "Owner access only"
    /\ cookie \in DOMAIN sessions

\* every session but that of the request is in the table after the step as it was before
OtherSessionsKept ==
    \A t \in DOMAIN sessions \ {cookie'} : t \in DOMAIN sessions' /\ sessions'[t] = sessions[t]

\* C38: a register or login answered 200 adds one session under a new token
\* and leaves every earlier session as it was; a logout removes the session of
\* the token it presents and nothing else, and a verify-password changes the
\* session of its token alone: every other session, of the same user or of
\* another, is stored as before, and neither handler writes users.json, so it
\* resolves to the same user with the same passwordVerified flag.
C38_SessionsIndependent ==
    [][/\ tokens' # tokens
            => /\ last'.op \in {"register", "login"} /\ last'.status = 200
               /\ tokens' \notin DOMAIN sessions
               /\ DOMAIN sessions' = DOMAIN sessions \cup {tokens'}
               /\ \A t \in DOMAIN sessions : sessions'[t] = sessions[t]
       /\ (last'.op \in {"register", "login"} /\ last'.status = 200 /\ last' # last)
            => tokens' # tokens
       /\ Handled("logout")
            => /\ DOMAIN sessions' = DOMAIN sessions \ {cookie'}
               /\ OtherSessionsKept
       /\ Handled("verifyPassword") => OtherSessionsKept]_vars

\* of two sessions of one user, the password was verified on one and is still asked
\* for on the other
C38_OneSessionVerified ==
    /\ last.op = "verifyPassword" /\ last.status = 200
    /\ DOMAIN sessions = {1, 2}
    /\ sessions[1].userId = sessions[2].userId
    /\ sessions[cookie].passwordVerified
    /\ \E t \in DOMAIN sessions : isPasswordVerificationRequired(sessions[t])

\* of two sessions of one user, one was logged out and the other one is live
C38_OtherSessionLive ==
    /\ last.op = "logout"
    /\ cookie = 1
    /\ DOMAIN sessions = {2}
    /\ Len(users) = 1
    /\ ~IsNull(getAuthContext(2))

\* the items hold one with the id of the default item
HoldsDefault(items) == \E i \in DOMAIN items : items[i].id = TorchHat

\* C39: merch-items.json, once it exists, exists in every later state, and the
\* default item enters it only in a step that finds no file; from a state in
\* which the file exists and holds no item, the file holds no item after
\* every step but a create answered 200, which adds the created item and not
\* the default one, and every listing, public or owner's, answered 200 in such
\* a state is empty, restarts included.
C39_DefaultSeededOnce ==
    [][/\ merchExists => merchExists'
       /\ (HoldsDefault(merchItems') /\ ~HoldsDefault(merchItems)) => ~merchExists
       /\ (merchExists /\ merchItems = <<>>)
            => /\ \/ merchItems' = <<>>
                  \/ last'.op = "createItem" /\ last'.status = 200 /\ ~HoldsDefault(merchItems')
               /\ (last'.op \in {"listMerch", "listAdminMerch"} /\ last'.status = 200)
                    => Val(last'.body) = <<>>]_vars

\* the owner deleted the only item, the process restarted, and the listing asked for
\* under a session of the new process is empty
C39_EmptyAfterRestart ==
    /\ last.op = "listMerch" /\ last.status = 200
    /\ Val(last.body) = <<>>
    /\ merchExists /\ merchItems = <<>>
    /\ tokens = 2 /\ DOMAIN sessions = {2} /\ cookie = 2

\* after the default item was deleted a product was created, and the owner's listing
\* shows it alone
C39_CreatedAlone ==
    /\ last.op = "listAdminMerch" /\ last.status = 200
    /\ Len(Val(last.body)) = 1
    /\ ~HoldsDefault(Val(last.body))

====
